---- MODULE Spec2Model ----
(***************************************************************************)
(* A model of the update-colorworks-google-sheet edge function: the rate   *)
(* limiter, validateRequest, the payload normalizer of both revisions of   *)
(* the handler that the repository holds (index.ts, and the revision with  *)
(* three variants and header rows), and the spreadsheet sink.              *)
(***************************************************************************)
EXTENDS Integers, Sequences, FiniteSets, TLC

(***************************************************************************)
(* JSON values.  A value is a record tagged by its JavaScript type, so     *)
(* that values of different types can be compared.                         *)
(***************************************************************************)
Undef == [t |-> "undefined"]

JNull == [t |-> "null"]

JStr(s) == [t |-> "string", s |-> s]

JNum(n) == [t |-> "number", n |-> n]

JBool(b) == [t |-> "boolean", b |-> b]

JObj(f) == [t |-> "object", f |-> f]

JArr(a) == [t |-> "array", a |-> a]

\* new Date().toISOString() taken at time at
Timestamp(at) == [t |-> "string", iso |-> at]

\* timestamp.split('T')[0]: the date part of the ISO timestamp
DatePart(ts) == [t |-> "string", isoDate |-> ts.iso]

\* JavaScript truthiness: !!v
Truthy(v) ==
  CASE v.t = "undefined" -> FALSE
    [] v.t = "null" -> FALSE
    [] v.t = "boolean" -> v.b
    [] v.t = "number" -> v.n # 0
    [] v.t = "string" -> (("s" \in DOMAIN v) => v.s # "")
    [] OTHER -> TRUE

\* obj.key (undefined when the key is absent or obj is a primitive)
Get(obj, key) ==
  IF obj.t = "object" /\ key \in DOMAIN obj.f THEN obj.f[key] ELSE Undef

\* obj?.key
OptGet(obj, key) ==
  IF obj.t \in {"undefined", "null"} THEN Undef ELSE Get(obj, key)

\* key in obj
HasKey(obj, key) == obj.t = "object" /\ key \in DOMAIN obj.f

\* a || b
OrElse(a, b) == IF Truthy(a) THEN a ELSE b

\* Reading a property of undefined or null throws a TypeError
Throws(obj) == obj.t \in {"undefined", "null"}

\* String(v), as a template literal `${v}` renders it
ToStr(v) ==
  CASE v.t = "string" /\ "s" \in DOMAIN v -> v.s
    [] v.t = "number" -> ToString(v.n)
    [] v.t = "boolean" -> IF v.b THEN "true" ELSE "false"
    [] v.t = "undefined" -> "undefined"
    [] v.t = "null" -> "null"
    [] OTHER -> "[object Object]"

\* strs.join(sep) for a sequence of strings
RECURSIVE Join(_, _)
Join(strs, sep) ==
  IF Len(strs) = 0 THEN ""
  ELSE IF Len(strs) = 1 THEN strs[1]
  ELSE strs[1] \o sep \o Join(Tail(strs), sep)

\* Array.isArray(v) ? v.join(", ") : ""
JoinArr(v) ==
  IF v.t = "array" THEN JStr(Join([i \in 1..Len(v.a) |-> ToStr(v.a[i])], ", "))
  ELSE JStr("")

\* requiredFields.filter(field => pred(field)), keeping the order of the list
RECURSIVE Filter(_, _)
Filter(fields, keep) ==
  IF Len(fields) = 0 THEN <<>>
  ELSE (IF fields[1] \in keep THEN <<fields[1]>> ELSE <<>>)
       \o Filter(Tail(fields), keep)

Range(s) == {s[i] : i \in 1..Len(s)}

(***************************************************************************)
(* Header values.  A header is absent or a text; a text is a sequence of   *)
(* atoms (words, and the single space " "), so that includes() and         *)
(* split(" ") are computed and not assumed.                                *)
(***************************************************************************)
NoHeader == [has |-> FALSE, v |-> <<>>]

Header(v) == [has |-> TRUE, v |-> v]

\* headers.get(name) || ""
OrEmpty(h) == IF h.has THEN h.v ELSE <<>>

\* text.includes(atom)
Includes(text, atom) == \E i \in 1..Len(text) : text[i] = atom

\* text.split(" ")
RECURSIVE Split(_)
Split(text) ==
  IF \A i \in 1..Len(text) : text[i] # " " THEN <<text>>
  ELSE LET i == CHOOSE k \in 1..Len(text) :
                   text[k] = " " /\ \A j \in 1..(k - 1) : text[j] # " "
       IN <<SubSeq(text, 1, i - 1)>> \o Split(SubSeq(text, i + 1, Len(text)))

(***************************************************************************)
(* validateRequest (_shared/validate-request.ts)                           *)
(***************************************************************************)
Reject(status, error) == [success |-> FALSE, status |-> status, error |-> error]

Accept == [success |-> TRUE, status |-> 0, error |-> ""]

\* a plausible slip: the comparison with the secret left out
TokenRejectedUnchecked(token, apiKey) == ~apiKey.has \/ apiKey.v = <<>>

\* a plausible slip: only the unset secret is refused (apiKey === undefined)
TokenRejectedUnsetOnly(token, apiKey) == ~apiKey.has \/ token # apiKey.v

\* if (!apiKey || token !== apiKey)
TokenRejected(token, apiKey) == ~apiKey.has \/ apiKey.v = <<>> \/ token # apiKey.v

\* a plausible slip: the method check left out
validateRequestAnyMethod(req, apiKey) ==
  LET contentType == OrEmpty(req.contentType)
      authHeader == req.authorization
      parts == Split(authHeader.v)
  IN IF ~Includes(contentType, "application/json")
       THEN Reject(400, "Content-Type must be application/json")
     ELSE IF ~authHeader.has \/ authHeader.v = <<>>
       THEN Reject(401, "Missing authorization header")
     ELSE IF Len(parts) # 2 \/ parts[1] # <<"Bearer">>
       THEN Reject(401, "Invalid authorization format")
     ELSE IF TokenRejected(parts[2], apiKey)
       THEN Reject(401, "Invalid authorization token")
     ELSE Accept

\* a plausible slip: the first two checks in the other order
validateRequestMethodFirst(req, apiKey) ==
  LET contentType == OrEmpty(req.contentType)
      authHeader == req.authorization
      parts == Split(authHeader.v)
  IN IF req.method # "POST" THEN Reject(405, "Method not allowed")
     ELSE IF ~Includes(contentType, "application/json")
       THEN Reject(400, "Content-Type must be application/json")
     ELSE IF ~authHeader.has \/ authHeader.v = <<>>
       THEN Reject(401, "Missing authorization header")
     ELSE IF Len(parts) # 2 \/ parts[1] # <<"Bearer">>
       THEN Reject(401, "Invalid authorization format")
     ELSE IF TokenRejected(parts[2], apiKey)
       THEN Reject(401, "Invalid authorization token")
     ELSE Accept

validateRequest(req, apiKey) ==
  LET contentType == OrEmpty(req.contentType)
      authHeader == req.authorization
      parts == Split(authHeader.v)
  IN IF ~Includes(contentType, "application/json")
       THEN Reject(400, "Content-Type must be application/json")
     ELSE IF req.method # "POST" THEN Reject(405, "Method not allowed")
     ELSE IF ~authHeader.has \/ authHeader.v = <<>>
       THEN Reject(401, "Missing authorization header")
     ELSE IF Len(parts) # 2 \/ parts[1] # <<"Bearer">>
       THEN Reject(401, "Invalid authorization format")
     ELSE IF TokenRejected(parts[2], apiKey)
       THEN Reject(401, "Invalid authorization token")
     ELSE Accept

(***************************************************************************)
(* The rate limiter (the handler's first synchronous section).             *)
(***************************************************************************)
RATE_LIMIT_NUM == 10

RATE_LIMIT_WINDOW_MS == 60000

NoXff == [has |-> FALSE, v |-> ""]

\* a plausible slip: the caller is identified by its Authorization header
clientIpByAuthorization(req) ==
  IF req.authorization.has THEN "bearer" ELSE "unknown"

\* req.headers.get("x-forwarded-for") || "unknown"
clientIp(req) ==
  IF req.xff.has /\ req.xff.v # "" THEN req.xff.v ELSE "unknown"

\* a plausible slip: the window is taken to be over at its reset time
WindowPassedAtReset(now, ipData) == now >= ipData.resetTime

\* if (now > ipData.resetTime)
WindowPassed(now, ipData) == now > ipData.resetTime

\* a plausible slip: the limit is reached one request early
LimitExceededEarly(ipData) == ipData.count >= RATE_LIMIT_NUM

\* if (ipData.count > RATE_LIMIT_NUM)
LimitExceeded(ipData) == ipData.count > RATE_LIMIT_NUM

\* ipRequestMap.get(clientIp) || { count: 0, resetTime: now + WINDOW }
ipDataOf(map, ip, now) ==
  IF ip \in DOMAIN map THEN map[ip]
  ELSE [count |-> 0, resetTime |-> now + RATE_LIMIT_WINDOW_MS]

\* the entry that the handler stores for this request
ipDataNext(map, ip, now) ==
  LET ipData == ipDataOf(map, ip, now)
  IN IF WindowPassed(now, ipData)
       THEN [count |-> 1, resetTime |-> now + RATE_LIMIT_WINDOW_MS]
     ELSE [count |-> ipData.count + 1, resetTime |-> ipData.resetTime]

\* ipRequestMap.set(clientIp, ipData)
MapSet(map, ip, ipData) ==
  [k \in DOMAIN map \cup {ip} |-> IF k = ip THEN ipData ELSE map[k]]

(***************************************************************************)
(* The payload normalizer of index.ts (the dataType dispatch, inline in    *)
(* the handler).                                                           *)
(***************************************************************************)
BulkRequiredFields == <<"name", "email", "phoneNumber", "numberOfAssessments">>

LiveRequiredFields == <<"name", "email", "phoneNumber", "estimatedAttendees">>

\* requiredFields.filter(field => !(field in data))
missingFields(requiredFields, data) ==
  Filter(requiredFields, {f \in Range(requiredFields) : ~HasKey(data, f)})

\* `Missing required fields: ${missingFields.join(', ')}`
MissingFieldsError(missing) == "Missing required fields: " \o Join(missing, ", ")

\* index.ts: let formattedEventDate = ""; if (eventData.eventDate) ...
formattedEventDate(eventData) ==
  LET eventDate == Get(eventData, "eventDate")
  IN IF ~Truthy(eventDate) THEN JStr("")
     ELSE IF eventDate.t = "string" THEN eventDate
     ELSE JStr(ToStr(Get(eventDate, "startDate")) \o " to "
               \o ToStr(Get(eventDate, "endDate")))

\* index.ts: the bulk-assessment row
bulkValues(bulkData, now) ==
  LET timestamp == Timestamp(now)
  IN [c \in {"Date", "Name", "Email", "Phone Number", "Number of Assessments",
             "Submission Date"} |->
        CASE c = "Date" -> DatePart(timestamp)
          [] c = "Name" -> Get(bulkData, "name")
          [] c = "Email" -> Get(bulkData, "email")
          [] c = "Phone Number" -> Get(bulkData, "phoneNumber")
          [] c = "Number of Assessments" -> Get(bulkData, "numberOfAssessments")
          [] OTHER -> timestamp]

LiveEventColumns ==
  {"Name", "Email", "Phone Number", "Job Title", "Organization", "Website",
   "Estimated Attendees", "Content Type", "Duration", "Event Formats",
   "Event Group Type", "Event Types", "Custom Event Type", "Location Type",
   "City", "State", "Location Name", "Budget", "Event Date",
   "Interested In Bulk Assessments", "Referral Source", "Referral Info",
   "Submission Date"}

\* index.ts: the live-event row
liveEventValues(eventData, now) ==
  LET special == Get(eventData, "specialEventInfo")
      location == Get(eventData, "locationInfo")
      referral == Get(eventData, "referralInfo")
      budget == Get(eventData, "budget")
      eventTypes == OptGet(special, "eventTypes")
  IN [c \in LiveEventColumns |->
        CASE c = "Name" -> Get(eventData, "name")
          [] c = "Email" -> Get(eventData, "email")
          [] c = "Phone Number" -> Get(eventData, "phoneNumber")
          [] c = "Job Title" -> OrElse(Get(eventData, "jobTitle"), JStr(""))
          [] c = "Organization" -> OrElse(Get(eventData, "organizationName"), JStr(""))
          [] c = "Website" -> OrElse(Get(eventData, "websiteUrl"), JStr(""))
          [] c = "Estimated Attendees" -> Get(eventData, "estimatedAttendees")
          [] c = "Content Type" -> OrElse(Get(eventData, "desiredContentType"), JStr(""))
          [] c = "Duration" -> OrElse(Get(eventData, "desiredDuration"), JStr(""))
          [] c = "Event Formats" -> JoinArr(Get(eventData, "desiredFormats"))
          [] c = "Event Group Type" -> OrElse(OptGet(special, "type"), JStr(""))
          [] c = "Event Types" ->
               IF Throws(eventTypes) THEN JStr("")
               ELSE OrElse(JoinArr(eventTypes), JStr(""))
          [] c = "Custom Event Type" ->
               OrElse(OptGet(special, "userDefinedEventType"), JStr(""))
          [] c = "Location Type" -> OrElse(OptGet(location, "type"), JStr(""))
          [] c = "City" -> OrElse(OptGet(location, "city"), JStr(""))
          [] c = "State" -> OrElse(OptGet(location, "state"), JStr(""))
          [] c = "Location Name" -> OrElse(OptGet(location, "locationName"), JStr(""))
          [] c = "Budget" ->
               IF Throws(budget) THEN JStr("")
               ELSE OrElse(JStr(ToStr(budget)), JStr(""))
          [] c = "Event Date" -> formattedEventDate(eventData)
          [] c = "Interested In Bulk Assessments" ->
               IF Get(eventData, "interestedInBulkAssessments") = JBool(TRUE)
                 THEN JStr("Yes") ELSE JStr("No")
          [] c = "Referral Source" -> OrElse(OptGet(referral, "source"), JStr(""))
          [] c = "Referral Info" -> OrElse(OptGet(referral, "moreInfo"), JStr(""))
          [] OTHER -> Timestamp(now)]

\* What a normalizer hands on: a rejection, a thrown TypeError, or the
\* destination tab with the rows and the canonical header list
NormReject(status, error) ==
  [kind |-> "reject", status |-> status, error |-> error,
   tabName |-> Undef, rows |-> <<>>, headers |-> <<>>]

NormThrow ==
  [kind |-> "throw", status |-> 500, error |-> "TypeError",
   tabName |-> Undef, rows |-> <<>>, headers |-> <<>>]

NormRows(tabName, rows, headers) ==
  [kind |-> "rows", status |-> 0, error |-> "",
   tabName |-> tabName, rows |-> rows, headers |-> headers]

\* index.ts: if (data.dataType === 'bulk-assessment') ... else if ... else
processDataIndex(data, now) ==
  LET dataType == Get(data, "dataType")
  IN IF dataType = JStr("bulk-assessment")
       THEN LET missing == missingFields(BulkRequiredFields, data)
            IN IF Len(missing) > 0 THEN NormReject(400, MissingFieldsError(missing))
               ELSE NormRows(JStr("Bulk Assessments"), <<bulkValues(data, now)>>, <<>>)
     ELSE IF dataType = JStr("live-event")
       THEN LET missing == missingFields(LiveRequiredFields, data)
            IN IF Len(missing) > 0 THEN NormReject(400, MissingFieldsError(missing))
               ELSE NormRows(JStr("Live Events"), <<liveEventValues(data, now)>>, <<>>)
     ELSE NormReject(400, "Unknown data type: " \o ToStr(dataType))

(***************************************************************************)
(* The payload normalizer of the revision with three variants: the         *)
(* canonical header lists and the three format functions.                  *)
(***************************************************************************)
BULK_ASSESSMENT_TAB == "Bulk Assessments"

LIVE_EVENT_TAB == "Live Events"

USER_SIGNUP_TAB == "User Signups"

BULK_ASSESSMENT_HEADERS ==
  <<"Name", "Email", "Phone Number", "Number of Assessments", "Submission Date">>

LIVE_EVENT_HEADERS ==
  <<"Name", "Email", "Phone Number", "Job Title", "Organization", "Website",
    "Estimated Attendees", "Content Type", "Duration", "Event Formats",
    "Event Group Type", "Event Types", "Custom Event Type", "Location Type",
    "City", "State", "Location Name", "Budget", "Event Date",
    "Interested In Bulk Assessments", "Referral Source", "Referral Info",
    "Submission Date">>

USER_SIGNUP_HEADERS ==
  <<"Email", "First Name", "Last Name", "Created Date", "Signup Date">>

formatEventDate(eventDate) ==
  IF ~Truthy(eventDate) THEN JStr("")
  ELSE IF eventDate.t = "string" THEN eventDate
  ELSE JStr(ToStr(Get(eventDate, "startDate")) \o " - "
            \o ToStr(Get(eventDate, "endDate")))

formatBulkAssessmentData(data, now) ==
  [c \in Range(BULK_ASSESSMENT_HEADERS) |->
     CASE c = "Name" -> Get(data, "name")
       [] c = "Email" -> Get(data, "email")
       [] c = "Phone Number" -> Get(data, "phoneNumber")
       [] c = "Number of Assessments" -> Get(data, "numberOfAssessments")
       [] OTHER -> Timestamp(now)]

\* data.referralInfo.source throws when referralInfo is undefined or null
formatLiveEventDataThrows(data) == Throws(Get(data, "referralInfo"))

formatLiveEventData(data, now) ==
  LET special == Get(data, "specialEventInfo")
      location == Get(data, "locationInfo")
      referral == Get(data, "referralInfo")
      eventDate == formatEventDate(Get(data, "eventDate"))
  IN [c \in LiveEventColumns |->
        CASE c = "Name" -> Get(data, "name")
          [] c = "Email" -> Get(data, "email")
          [] c = "Phone Number" -> Get(data, "phoneNumber")
          [] c = "Job Title" -> Get(data, "jobTitle")
          [] c = "Organization" -> Get(data, "organizationName")
          [] c = "Website" -> Get(data, "websiteUrl")
          [] c = "Estimated Attendees" -> Get(data, "estimatedAttendees")
          [] c = "Content Type" -> OrElse(Get(data, "desiredContentType"), JStr(""))
          [] c = "Duration" -> OrElse(Get(data, "desiredDuration"), JStr(""))
          [] c = "Event Formats" -> JoinArr(Get(data, "desiredFormats"))
          [] c = "Event Group Type" -> OrElse(OptGet(special, "type"), JStr(""))
          [] c = "Event Types" -> JoinArr(OptGet(special, "eventTypes"))
          [] c = "Custom Event Type" ->
               OrElse(OptGet(special, "userDefinedEventType"), JStr(""))
          [] c = "Location Type" -> OrElse(OptGet(location, "type"), JStr(""))
          [] c = "City" ->
               IF Truthy(location) /\ HasKey(location, "city")
                 THEN Get(location, "city") ELSE JStr("")
          [] c = "State" ->
               IF Truthy(location) /\ HasKey(location, "state")
                 THEN Get(location, "state") ELSE JStr("")
          [] c = "Location Name" ->
               IF Truthy(location) /\ HasKey(location, "locationName")
                 THEN Get(location, "locationName") ELSE JStr("")
          [] c = "Budget" -> OrElse(Get(data, "budget"), JStr(""))
          [] c = "Event Date" -> eventDate
          [] c = "Interested In Bulk Assessments" ->
               IF Truthy(Get(data, "interestedInBulkAssessments"))
                 THEN JStr("Yes") ELSE JStr("No")
          [] c = "Referral Source" -> Get(referral, "source")
          [] c = "Referral Info" -> Get(referral, "moreInfo")
          [] OTHER -> Timestamp(now)]

formatUserSignupData(data, now) ==
  [c \in Range(USER_SIGNUP_HEADERS) |->
     CASE c = "Email" -> Get(data, "email")
       [] c = "First Name" -> OrElse(Get(data, "firstName"), JStr(""))
       [] c = "Last Name" -> OrElse(Get(data, "lastName"), JStr(""))
       [] c = "Created Date" -> Get(data, "createdDate")
       [] OTHER -> Timestamp(now)]

\* if ('dataType' in data) switch (data.dataType) ... else legacy
processDataTagged(data, now) ==
  LET dataType == Get(data, "dataType")
      values == Get(data, "values")
  IN IF HasKey(data, "dataType")
       THEN IF dataType = JStr("bulk-assessment")
              THEN NormRows(JStr(BULK_ASSESSMENT_TAB),
                            <<formatBulkAssessmentData(data, now)>>,
                            BULK_ASSESSMENT_HEADERS)
            ELSE IF dataType = JStr("live-event")
              THEN IF formatLiveEventDataThrows(data) THEN NormThrow
                   ELSE NormRows(JStr(LIVE_EVENT_TAB),
                                 <<formatLiveEventData(data, now)>>,
                                 LIVE_EVENT_HEADERS)
            ELSE IF dataType = JStr("user-signup")
              THEN NormRows(JStr(USER_SIGNUP_TAB),
                            <<formatUserSignupData(data, now)>>,
                            USER_SIGNUP_HEADERS)
            ELSE NormReject(400, "Invalid data type")
     ELSE NormRows(Get(data, "tabName"),
                   IF values.t = "array" THEN values.a ELSE <<values>>,
                   <<>>)

(***************************************************************************)
(* getServiceAccountCreds.  A configured text is described by what the     *)
(* decoding primitives make of it: atob (for the base64 value),            *)
(* JSON.parse, and the two regular expressions of the last resort.         *)
(***************************************************************************)
NoText == [has |-> FALSE, kind |-> "none"]

\* a text that JSON.parse accepts, yielding value v
JsonText(v, emailMatch, keyMatch) ==
  [has |-> TRUE, kind |-> "json", v |-> v, emailMatch |-> emailMatch,
   keyMatch |-> keyMatch]

\* a text that JSON.parse rejects; the regular expressions may still match
BrokenText(emailMatch, keyMatch) ==
  [has |-> TRUE, kind |-> "broken", v |-> Undef, emailMatch |-> emailMatch,
   keyMatch |-> keyMatch]

\* the JSON string value whose content is the text inner
JText(inner) == [t |-> "string", text |-> inner]

\* the base64 encoding of the text inner; atob rejects anything else
Base64Text(inner) == [has |-> TRUE, kind |-> "base64", of |-> inner]

CredsFail == [ok |-> FALSE, client_email |-> Undef, private_key |-> Undef]

CredsOk(email, key) == [ok |-> TRUE, client_email |-> email, private_key |-> key]

\* JSON.parse(text): [ok, v]
JSONparse(text) ==
  IF text.has /\ text.kind = "json" THEN [ok |-> TRUE, v |-> text.v]
  ELSE [ok |-> FALSE, v |-> Undef]

\* a plausible slip: only client_email is verified
HasClientEmail(v) == ~Throws(v) /\ Truthy(Get(v, "client_email"))

\* credentials.client_email && credentials.private_key
HasBothFields(v) ==
  ~Throws(v) /\ Truthy(Get(v, "client_email")) /\ Truthy(Get(v, "private_key"))

\* the base64 attempt: the credentials, or nothing (any throw is swallowed)
credsFromBase64(base64Key) ==
  IF ~base64Key.has \/ base64Key.kind # "base64" THEN CredsFail
  ELSE LET parsed == JSONparse(base64Key.of)
       IN IF parsed.ok /\ HasBothFields(parsed.v)
            THEN CredsOk(Get(parsed.v, "client_email"), Get(parsed.v, "private_key"))
          ELSE CredsFail

\* a plausible slip: the second JSON.parse of a double-encoded value left out
credsFromRawParsedOnce(rawKey) ==
  LET first == IF rawKey.has THEN JSONparse(rawKey) ELSE [ok |-> TRUE, v |-> JObj(<<>>)]
  IN IF first.ok /\ HasBothFields(first.v)
       THEN CredsOk(Get(first.v, "client_email"), Get(first.v, "private_key"))
     ELSE CredsFail

\* the raw attempt: Deno.env.get("GOOGLE_SERVICE_ACCOUNT_KEY") || "{}"
credsFromRaw(rawKey) ==
  LET first == IF rawKey.has THEN JSONparse(rawKey) ELSE [ok |-> TRUE, v |-> JObj(<<>>)]
      second == IF first.ok /\ first.v.t = "string"
                  THEN (IF "text" \in DOMAIN first.v THEN JSONparse(first.v.text)
                        ELSE [ok |-> FALSE, v |-> Undef])
                ELSE first
  IN IF second.ok /\ HasBothFields(second.v)
       THEN CredsOk(Get(second.v, "client_email"), Get(second.v, "private_key"))
     ELSE CredsFail

\* the last resort: the two regular expressions on the raw text
credsFromRegex(rawKey) ==
  IF rawKey.has /\ rawKey.kind \in {"json", "broken"}
     /\ Truthy(rawKey.emailMatch) /\ Truthy(rawKey.keyMatch)
    THEN CredsOk(rawKey.emailMatch, rawKey.keyMatch)
  ELSE CredsFail

\* which sources a call consults, in the order it consults them: the base64
\* attempt returns or falls through, the raw attempt returns or throws into
\* the outer catch, where the regular expressions are the last resort
sourcesTried(base64Key, rawKey) ==
  IF credsFromBase64(base64Key).ok THEN <<"base64">>
  ELSE IF credsFromRaw(rawKey).ok THEN <<"base64", "raw">>
  ELSE <<"base64", "raw", "regex">>

\* a plausible slip: no inner try around the base64 attempt, so that a value
\* that cannot be decoded lands in the outer catch and skips the raw attempt
getServiceAccountCredsOneCatch(base64Key, rawKey) ==
  IF credsFromBase64(base64Key).ok THEN credsFromBase64(base64Key)
  ELSE IF base64Key.has /\ ~(base64Key.kind = "base64" /\ JSONparse(base64Key.of).ok
                              /\ ~Throws(JSONparse(base64Key.of).v))
    THEN credsFromRegex(rawKey)
  ELSE IF credsFromRaw(rawKey).ok THEN credsFromRaw(rawKey)
  ELSE credsFromRegex(rawKey)

getServiceAccountCreds(base64Key, rawKey) ==
  IF credsFromBase64(base64Key).ok THEN credsFromBase64(base64Key)
  ELSE IF credsFromRaw(rawKey).ok THEN credsFromRaw(rawKey)
  ELSE credsFromRegex(rawKey)

(***************************************************************************)
(* The state of the function instance and of its collaborators.            *)
(***************************************************************************)
VARIABLES
  rev,           \* which revision of the handler is deployed
  env,           \* Deno.env and the host (EdgeRuntime)
  now,           \* Date.now()
  ipRequestMap,  \* client identifier -> [count, resetTime]
  window,        \* history: per client, the start of its current window,
                 \* whether each request issued inside it passed the limiter,
                 \* and whether its previous window saw a request refused
  reqs,          \* one record per request being handled
  sheets,        \* the spreadsheets: sheet id -> tab title -> rows written
  call           \* the last call of a function taken on its own, and its result

vars == <<rev, env, now, ipRequestMap, window, reqs, sheets, call>>

Revisions == {"index.ts", "three-variants"}

Reqs == {"r1", "r2"}

SheetIds == {"sheet-env", "sheet-req"}

\* bounds of the model
MaxCount == 12

MaxRows == 3

MaxWindows == 1

MaxOffset == 1

NoReq ==
  [method |-> "", contentType |-> NoHeader, authorization |-> NoHeader,
   xff |-> NoXff]

NoResp ==
  [status |-> 0, success |-> FALSE, error |-> "", hasKeys |-> FALSE, keys |-> {}]

ErrorResp(status, error) ==
  [status |-> status, success |-> FALSE, error |-> error, hasKeys |-> FALSE,
   keys |-> {}]

\* { error, receivedParams: Object.keys(requestBody) }
KeysResp(status, error, keys) ==
  [status |-> status, success |-> FALSE, error |-> error, hasKeys |-> TRUE,
   keys |-> keys]

SuccessResp ==
  [status |-> 200, success |-> TRUE, error |-> "", hasKeys |-> FALSE, keys |-> {}]

\* new Response("ok", { headers: corsHeaders })
PreflightResp ==
  [status |-> 200, success |-> FALSE, error |-> "", hasKeys |-> FALSE, keys |-> {}]

NormNone ==
  [kind |-> "none", status |-> 0, error |-> "", tabName |-> Undef, rows |-> <<>>,
   headers |-> <<>>]

Idle ==
  [pc |-> "idle", req |-> NoReq, body |-> Undef, steps |-> <<>>, resp |-> NoResp,
   sheetId |-> Undef, norm |-> NormNone, seen |-> {}, notify |-> "none",
   appended |-> <<>>, nth |-> 0, creds |-> CredsFail]

\* Object.keys(requestBody)
ObjectKeys(v) == IF v.t = "object" THEN DOMAIN v.f ELSE {}

\* the request ends with this response
Respond(r, resp, tags) ==
  reqs' = [reqs EXCEPT ![r].pc = "done", ![r].resp = resp,
                       ![r].steps = @ \o tags]

\* the request fails with a 5xx that is reported: the response is kept until
\* notifySlack has been called
Report(r, resp, tags) ==
  reqs' = [reqs EXCEPT ![r].pc = "notify", ![r].resp = resp,
                       ![r].steps = @ \o tags]

\* a plausible slip: the top-level catch leaves the status out of its
\* response, which then carries the default 200
UnexpectedWithoutStatus == ErrorResp(200, "Unexpected error")

\* the top-level catch
Unexpected == ErrorResp(500, "Unexpected error")

TotalRows ==
  LET RECURSIVE Sum(_)
      Sum(S) == IF S = {} THEN 0
                ELSE LET x == CHOOSE y \in S : TRUE
                     IN Len(sheets[x[1]][x[2]]) + Sum(S \ {x})
  IN Sum({<<id, tab>> \in SheetIds \X UNION {DOMAIN sheets[i] : i \in SheetIds} :
            tab \in DOMAIN sheets[id]})

(***************************************************************************)
(* The handler, one action per section between two awaits.                 *)
(***************************************************************************)
\* a plausible slip: the entry is read before an await and stored after it,
\* so that the entry stored by a request handled in between is overwritten
ReceiveLosesUpdate(r, req) ==
  /\ reqs[r].pc = "idle"
  /\ TotalRows < MaxRows
  /\ ipDataNext(ipRequestMap, clientIp(req), now).count <= MaxCount
  /\ req.method # "OPTIONS"
  /\ LET ip == clientIp(req)
         ipData == ipDataNext(ipRequestMap, ip, now)
         passed == ~LimitExceeded(ipData)
         others == \E q \in Reqs \ {r} : reqs[q].pc \notin {"idle", "done"}
     IN /\ ipRequestMap' = IF others /\ ip \in DOMAIN ipRequestMap THEN ipRequestMap
                           ELSE MapSet(ipRequestMap, ip, ipData)
        /\ window' = MapSet(window, ip,
                        IF ip \notin DOMAIN window
                          THEN [start |-> now, passed |-> <<passed>>, blocked |-> FALSE]
                        ELSE [window[ip] EXCEPT !.passed = Append(@, passed)])
        /\ reqs' = [reqs EXCEPT ![r] =
                     [Idle EXCEPT !.req = req, !.steps = <<"rateLimit">>,
                        !.nth = ipData.count,
                        !.pc = IF passed THEN "validate" ELSE "done",
                        !.resp = IF passed THEN NoResp
                                 ELSE ErrorResp(429, "Too many requests, please try again later")]]
  /\ UNCHANGED <<rev, env, now, sheets, call>>

\* A request arrives: the CORS preflight, then the rate limiter.
Receive(r, req) ==
  /\ reqs[r].pc = "idle"
  /\ TotalRows < MaxRows
  /\ ipDataNext(ipRequestMap, clientIp(req), now).count <= MaxCount
  /\ IF req.method = "OPTIONS"
       THEN /\ reqs' = [reqs EXCEPT ![r] = [Idle EXCEPT !.pc = "done", !.req = req,
                                                        !.resp = PreflightResp]]
            /\ UNCHANGED <<ipRequestMap, window>>
     ELSE LET ip == clientIp(req)
              ipData == ipDataNext(ipRequestMap, ip, now)
              passed == ~LimitExceeded(ipData)
              fresh == \/ ip \notin DOMAIN window
                       \/ now > window[ip].start + RATE_LIMIT_WINDOW_MS
          IN /\ ipRequestMap' = MapSet(ipRequestMap, ip, ipData)
             /\ window' = MapSet(window, ip,
                            IF fresh
                              THEN [start |-> now, passed |-> <<passed>>,
                                    blocked |-> ip \in DOMAIN window /\
                                      Len(window[ip].passed) > RATE_LIMIT_NUM]
                            ELSE [window[ip] EXCEPT !.passed = Append(@, passed)])
             /\ reqs' = [reqs EXCEPT ![r] =
                  [Idle EXCEPT !.req = req, !.steps = <<"rateLimit">>,
                     !.nth = IF fresh THEN 1 ELSE Len(window[ip].passed) + 1,
                     !.pc = IF passed THEN "validate" ELSE "done",
                     !.resp = IF passed THEN NoResp
                              ELSE ErrorResp(429, "Too many requests, please try again later")]]
  /\ UNCHANGED <<rev, env, now, sheets, call>>

\* a plausible slip: the return after a failed validation left out
ValidateFallsThrough(r) ==
  /\ reqs[r].pc = "validate"
  /\ LET validation == validateRequest(reqs[r].req, env.apiKey)
     IN reqs' = [reqs EXCEPT
                   ![r].pc = "body",
                   ![r].resp = IF validation.success THEN @
                               ELSE ErrorResp(validation.status, validation.error),
                   ![r].steps = @ \o <<"validateRequest">>]
  /\ UNCHANGED <<rev, env, now, ipRequestMap, window, sheets, call>>

\* const validation = await validateRequest(req)
Validate(r) ==
  /\ reqs[r].pc = "validate"
  /\ LET validation == validateRequest(reqs[r].req, env.apiKey)
     IN IF validation.success
          THEN reqs' = [reqs EXCEPT ![r].pc = "body",
                                    ![r].steps = @ \o <<"validateRequest">>]
        ELSE Respond(r, ErrorResp(validation.status, validation.error),
                     <<"validateRequest">>)
  /\ UNCHANGED <<rev, env, now, ipRequestMap, window, sheets, call>>

InvalidJson == [t |-> "invalid"]

\* await req.json(): the body arrives and is parsed
ParseBody(r, body) ==
  /\ reqs[r].pc = "body"
  /\ IF body = InvalidJson
       THEN IF rev = "index.ts"
              THEN Respond(r, ErrorResp(400, "Invalid JSON in request body"),
                           <<"readBody">>)
            ELSE Report(r, Unexpected, <<"readBody">>)
     ELSE reqs' = [reqs EXCEPT ![r].pc = "normalize", ![r].body = body,
                               ![r].steps = @ \o <<"readBody">>]
  /\ UNCHANGED <<rev, env, now, ipRequestMap, window, sheets, call>>

\* index.ts: the data check, the configured sheet id, the dataType dispatch
NormalizeIndex(r) ==
  LET requestBody == reqs[r].body
      data == Get(requestBody, "data")
      norm == processDataIndex(data, now)
  IN IF Throws(requestBody) THEN Report(r, Unexpected, <<"normalize">>)
     ELSE IF ~Truthy(data)
       THEN Respond(r, KeysResp(400, "Missing required property: data",
                                ObjectKeys(requestBody)), <<"normalize">>)
     ELSE IF ~Truthy(env.sheetId)
       THEN Respond(r, ErrorResp(500, "Server configuration error: Missing sheet ID"),
                    <<"normalize">>)
     ELSE IF norm.kind = "reject"
       THEN Respond(r, ErrorResp(norm.status, norm.error), <<"normalize">>)
     ELSE reqs' = [reqs EXCEPT ![r].pc = "creds", ![r].norm = norm,
                               ![r].sheetId = env.sheetId,
                               ![r].steps = @ \o <<"normalize">>]

\* three variants: sheetId || DEFAULT_SHEET_ID, the data check, the switch
NormalizeTagged(r) ==
  LET requestBody == reqs[r].body
      data == Get(requestBody, "data")
      sheetId == OrElse(Get(requestBody, "sheetId"), env.sheetId)
      norm == processDataTagged(data, now)
  IN IF Throws(requestBody) THEN Report(r, Unexpected, <<"normalize">>)
     ELSE IF ~Truthy(sheetId)
       THEN Respond(r, ErrorResp(400,
              "No sheet ID provided in request and no default sheet ID configured in environment"),
              <<"normalize">>)
     ELSE IF ~Truthy(data) \/ data.t \notin {"object", "array"}
       THEN Respond(r, ErrorResp(400,
              "Missing or invalid parameter: data should be an object"),
              <<"normalize">>)
     ELSE IF norm.kind = "reject"
       THEN Respond(r, ErrorResp(norm.status, norm.error), <<"normalize">>)
     ELSE IF norm.kind = "throw" THEN Report(r, Unexpected, <<"normalize">>)
     ELSE reqs' = [reqs EXCEPT ![r].pc = "creds", ![r].norm = norm,
                               ![r].sheetId = sheetId,
                               ![r].steps = @ \o <<"normalize">>]

Normalize(r) ==
  /\ reqs[r].pc = "normalize"
  /\ IF rev = "index.ts" THEN NormalizeIndex(r) ELSE NormalizeTagged(r)
  /\ UNCHANGED <<rev, env, now, ipRequestMap, window, sheets, call>>

\* const serviceAccountCreds = await getServiceAccountCreds()
GetCreds(r) ==
  /\ reqs[r].pc = "creds"
  /\ IF getServiceAccountCreds(env.base64Key, env.rawKey).ok
       THEN reqs' = [reqs EXCEPT ![r].pc = "auth",
                       ![r].creds = getServiceAccountCreds(env.base64Key, env.rawKey),
                       ![r].steps = @ \o <<"getServiceAccountCreds">>]
     ELSE Report(r, Unexpected, <<"getServiceAccountCreds">>)
  /\ UNCHANGED <<rev, env, now, ipRequestMap, window, sheets, call>>

\* await doc.useServiceAccountAuth(...)
Auth(r, ok) ==
  /\ reqs[r].pc = "auth"
  /\ IF ok
       THEN reqs' = [reqs EXCEPT ![r].pc = "load",
                                 ![r].steps = @ \o <<"useServiceAccountAuth">>]
     ELSE Report(r, IF rev = "index.ts"
                      THEN ErrorResp(500, "Authentication with Google Sheets failed")
                    ELSE Unexpected,
                 <<"useServiceAccountAuth">>)
  /\ UNCHANGED <<rev, env, now, ipRequestMap, window, sheets, call>>

TabOf(r) == ToStr(reqs[r].norm.tabName)

SheetOf(r) == ToStr(reqs[r].sheetId)

\* where the handler goes once it holds the worksheet
AfterSheet(r) ==
  IF rev # "index.ts" /\ Len(reqs[r].norm.headers) > 0 THEN "loadCells"
  ELSE "append"

\* a plausible slip: addSheet is called without the lookup by title
LoadInfoAlwaysCreates(r, ok) ==
  /\ reqs[r].pc = "load"
  /\ IF ok
       THEN reqs' = [reqs EXCEPT ![r].seen = DOMAIN sheets[SheetOf(r)],
                                 ![r].pc = "addSheet",
                                 ![r].steps = @ \o <<"loadInfo">>]
     ELSE Report(r, IF rev = "index.ts"
                      THEN ErrorResp(500, "Failed to load spreadsheet")
                    ELSE Unexpected,
                 <<"loadInfo">>)
  /\ UNCHANGED <<rev, env, now, ipRequestMap, window, sheets, call>>

\* await doc.loadInfo(), then sheet = doc.sheetsByTitle[tabName]
LoadInfo(r, ok) ==
  /\ reqs[r].pc = "load"
  /\ IF ok
       THEN LET seen == DOMAIN sheets[SheetOf(r)]
            IN reqs' = [reqs EXCEPT ![r].seen = seen,
                          ![r].pc = IF TabOf(r) \in seen THEN AfterSheet(r)
                                    ELSE "addSheet",
                          ![r].steps = @ \o <<"loadInfo">>]
     ELSE Report(r, IF rev = "index.ts"
                      THEN ErrorResp(500, "Failed to load spreadsheet")
                    ELSE Unexpected,
                 <<"loadInfo">>)
  /\ UNCHANGED <<rev, env, now, ipRequestMap, window, sheets, call>>

\* sheet = await doc.addSheet({ title: tabName }); the service refuses a
\* title that the spreadsheet already has
AddSheet(r, ok) ==
  /\ reqs[r].pc = "addSheet"
  /\ IF ok /\ TabOf(r) \notin DOMAIN sheets[SheetOf(r)]
       THEN /\ sheets' = [sheets EXCEPT ![SheetOf(r)] =
                            MapSet(@, TabOf(r), <<>>)]
            /\ reqs' = [reqs EXCEPT ![r].pc = AfterSheet(r),
                                    ![r].steps = @ \o <<"addSheet">>]
     ELSE /\ Respond(r, ErrorResp(400, "Error accessing sheet"), <<"addSheet">>)
          /\ UNCHANGED sheets
  /\ UNCHANGED <<rev, env, now, ipRequestMap, window, call>>

\* a plausible slip: the header cells are written without a look at cell [0,0]
LoadCellsUnchecked(r, ok) ==
  /\ reqs[r].pc = "loadCells"
  /\ IF ok /\ TabOf(r) \in DOMAIN sheets[SheetOf(r)]
       THEN reqs' = [reqs EXCEPT ![r].pc = "saveCells",
                                 ![r].steps = @ \o <<"loadCells">>]
     ELSE Respond(r, ErrorResp(400, "Error accessing sheet"), <<"loadCells">>)
  /\ UNCHANGED <<rev, env, now, ipRequestMap, window, sheets, call>>

\* ensureSheetHasHeaders: await sheet.loadCells(); if (!firstCell.value) ...
LoadCells(r, ok) ==
  /\ reqs[r].pc = "loadCells"
  /\ IF ok /\ TabOf(r) \in DOMAIN sheets[SheetOf(r)]
       THEN reqs' = [reqs EXCEPT
                       ![r].pc = IF sheets[SheetOf(r)][TabOf(r)] = <<>>
                                   THEN "saveCells" ELSE "append",
                       ![r].steps = @ \o <<"loadCells">>]
     ELSE Respond(r, ErrorResp(400, "Error accessing sheet"), <<"loadCells">>)
  /\ UNCHANGED <<rev, env, now, ipRequestMap, window, sheets, call>>

\* a plausible slip: the catch of ensureSheetHasHeaders logs the error and
\* does not rethrow it
SaveCellsSwallows(r, ok) ==
  /\ reqs[r].pc = "saveCells"
  /\ reqs' = [reqs EXCEPT ![r].pc = "append",
                          ![r].steps = @ \o <<"saveUpdatedCells">>]
  /\ IF ok /\ TabOf(r) \in DOMAIN sheets[SheetOf(r)]
       THEN sheets' = [sheets EXCEPT ![SheetOf(r)][TabOf(r)] =
                         IF @ = <<>> THEN <<"header">>
                         ELSE <<"header">> \o Tail(@)]
     ELSE UNCHANGED sheets
  /\ UNCHANGED <<rev, env, now, ipRequestMap, window, call>>

\* ensureSheetHasHeaders: the header cells of row 0, await saveUpdatedCells()
SaveCells(r, ok) ==
  /\ reqs[r].pc = "saveCells"
  /\ IF ok /\ TabOf(r) \in DOMAIN sheets[SheetOf(r)]
       THEN /\ sheets' = [sheets EXCEPT ![SheetOf(r)][TabOf(r)] =
                            IF @ = <<>> THEN <<"header">>
                            ELSE <<"header">> \o Tail(@)]
            /\ reqs' = [reqs EXCEPT ![r].pc = "append",
                                    ![r].steps = @ \o <<"saveUpdatedCells">>]
     ELSE /\ Respond(r, ErrorResp(400, "Error accessing sheet"),
                     <<"saveUpdatedCells">>)
          /\ UNCHANGED sheets
  /\ UNCHANGED <<rev, env, now, ipRequestMap, window, call>>

HasAddRows(r) == \E i \in DOMAIN reqs[r].steps : reqs[r].steps[i] = "addRows"

\* a plausible slip: a failed append is tried again
AddRowsRetries(r, ok) ==
  /\ reqs[r].pc = "append"
  /\ IF ok /\ TabOf(r) \in DOMAIN sheets[SheetOf(r)]
       THEN /\ sheets' = [sheets EXCEPT ![SheetOf(r)][TabOf(r)] =
                            @ \o [i \in 1..Len(reqs[r].norm.rows) |-> "row"]]
            /\ reqs' = [reqs EXCEPT ![r].pc = "done", ![r].resp = SuccessResp,
                          ![r].appended = [tab |-> TabOf(r), sheet |-> SheetOf(r),
                                           rows |-> reqs[r].norm.rows],
                          ![r].steps = @ \o <<"addRows">>]
     ELSE /\ IF HasAddRows(r)
               THEN Report(r, ErrorResp(500, "Error updating Google Sheet"),
                           <<"addRows">>)
             ELSE reqs' = [reqs EXCEPT ![r].steps = @ \o <<"addRows">>]
          /\ UNCHANGED sheets
  /\ UNCHANGED <<rev, env, now, ipRequestMap, window, call>>

\* a plausible slip: the catch around addRows reports the error and does not
\* return, so that the handler goes on to its success response
AddRowsFallsThrough(r, ok) ==
  /\ reqs[r].pc = "append"
  /\ reqs' = [reqs EXCEPT ![r].pc = "done", ![r].resp = SuccessResp,
                ![r].appended = IF ok /\ TabOf(r) \in DOMAIN sheets[SheetOf(r)]
                                  THEN [tab |-> TabOf(r), sheet |-> SheetOf(r),
                                        rows |-> reqs[r].norm.rows]
                                ELSE @,
                ![r].steps = @ \o <<"addRows">>]
  /\ IF ok /\ TabOf(r) \in DOMAIN sheets[SheetOf(r)]
       THEN sheets' = [sheets EXCEPT ![SheetOf(r)][TabOf(r)] =
                         @ \o [i \in 1..Len(reqs[r].norm.rows) |-> "row"]]
     ELSE UNCHANGED sheets
  /\ UNCHANGED <<rev, env, now, ipRequestMap, window, call>>

\* await sheet.addRows(values), then the success response
AddRows(r, ok) ==
  /\ reqs[r].pc = "append"
  /\ IF ok /\ TabOf(r) \in DOMAIN sheets[SheetOf(r)]
       THEN /\ sheets' = [sheets EXCEPT ![SheetOf(r)][TabOf(r)] =
                            @ \o [i \in 1..Len(reqs[r].norm.rows) |-> "row"]]
            /\ reqs' = [reqs EXCEPT ![r].pc = "done", ![r].resp = SuccessResp,
                          ![r].appended = [tab |-> TabOf(r), sheet |-> SheetOf(r),
                                           rows |-> reqs[r].norm.rows],
                          ![r].steps = @ \o <<"addRows">>]
     ELSE /\ Report(r, ErrorResp(500, "Error updating Google Sheet"), <<"addRows">>)
          /\ UNCHANGED sheets
  /\ UNCHANGED <<rev, env, now, ipRequestMap, window, call>>

\* a plausible slip: the notification is never awaited, whatever the host
NotifyDetached(r) ==
  /\ reqs[r].pc = "notify"
  /\ reqs' = [reqs EXCEPT
       ![r].steps = @ \o <<"notifySlack">>,
       ![r].notify = IF env.slackUrl THEN "inflight" ELSE "skipped",
       ![r].pc = "done"]
  /\ UNCHANGED <<rev, env, now, ipRequestMap, window, sheets, call>>

\* await useEdgeRuntimeWaitUntil(notifySlack(slackMessage)): notifySlack runs
\* up to its fetch; the response waits for the delivery only when the host
\* has no EdgeRuntime.waitUntil
Notify(r) ==
  /\ reqs[r].pc = "notify"
  /\ reqs' = [reqs EXCEPT
       ![r].steps = @ \o <<"notifySlack">>,
       ![r].notify = IF env.slackUrl THEN "inflight" ELSE "skipped",
       ![r].pc = IF env.slackUrl /\ ~env.edgeRuntime THEN "awaitNotify" ELSE "done"]
  /\ UNCHANGED <<rev, env, now, ipRequestMap, window, sheets, call>>

\* a plausible slip: no try around the fetch, so that its error reaches the
\* top-level catch of the handler that awaits it
DeliverEscalates(r, outcome) ==
  /\ reqs[r].notify = "inflight"
  /\ reqs' = [reqs EXCEPT ![r].notify = outcome,
                          ![r].pc = IF @ = "awaitNotify" THEN "done" ELSE @,
                          ![r].resp = IF outcome = "threw" /\ reqs[r].pc = "awaitNotify"
                                        THEN Unexpected ELSE @]
  /\ UNCHANGED <<rev, env, now, ipRequestMap, window, sheets, call>>

\* the webhook answers (ok, or not ok), or fetch throws
Deliver(r, outcome) ==
  /\ reqs[r].notify = "inflight"
  /\ reqs' = [reqs EXCEPT ![r].notify = outcome,
                          ![r].pc = IF @ = "awaitNotify" THEN "done" ELSE @]
  /\ UNCHANGED <<rev, env, now, ipRequestMap, window, sheets, call>>

\* the response has been sent and the handler's work is over
Finish(r) ==
  /\ reqs[r].pc = "done"
  /\ reqs[r].notify # "inflight"
  /\ reqs' = [reqs EXCEPT ![r] = Idle]
  /\ UNCHANGED <<rev, env, now, ipRequestMap, window, sheets, call>>

(***************************************************************************)
(* The functions taken on their own: one call, and what it returns.        *)
(***************************************************************************)
Pending == [pending |-> TRUE]

CallValidateRequest ==
  /\ call.fn = "validateRequest"
  /\ call.out = Pending
  /\ call' = [call EXCEPT !.out = validateRequest(call.req, call.apiKey)]
  /\ UNCHANGED <<rev, env, now, ipRequestMap, window, reqs, sheets>>

\* the normalizer of one revision applied to the data of a request body
CallNormalize ==
  /\ call.fn = "normalize"
  /\ call.out = Pending
  /\ call' = [call EXCEPT !.out =
                IF call.rev = "index.ts" THEN processDataIndex(call.data, call.at)
                ELSE processDataTagged(call.data, call.at)]
  /\ UNCHANGED <<rev, env, now, ipRequestMap, window, reqs, sheets>>

\* the wall clock advances
ClockValues ==
  {k * RATE_LIMIT_WINDOW_MS + e : k \in 0..MaxWindows, e \in 0..MaxOffset}
  \cup {(MaxWindows + 1) * RATE_LIMIT_WINDOW_MS + MaxOffset + 1}

Tick ==
  /\ \E t \in ClockValues : t > now /\ now' = t
  /\ UNCHANGED <<rev, env, ipRequestMap, window, reqs, sheets, call>>

(***************************************************************************)
(* The inputs: requests, bodies and configurations.                        *)
(***************************************************************************)
\* the object with the given <<key, value>> pairs
Obj(pairs) ==
  JObj([k \in {p[1] : p \in pairs} |-> (CHOOSE p \in pairs : p[1] = k)[2]])

\* the object without the keys of drop
Without(obj, drop) == JObj([k \in (DOMAIN obj.f) \ drop |-> obj.f[k]])

\* the object with one more key
With(obj, key, v) ==
  JObj([k \in (DOMAIN obj.f) \cup {key} |-> IF k = key THEN v ELSE obj.f[k]])

Secret == <<"key">>

ContentTypes ==
  {NoHeader, Header(<<"application/json">>),
   Header(<<"application/json", "; charset=utf-8">>), Header(<<"text/plain">>),
   Header(<<"APPLICATION/JSON">>)}

AuthAtoms == {"Bearer", "key", "bad", " "}

MaxAuthLen == 4

\* every Authorization text of at most MaxAuthLen atoms
AuthTexts == UNION {[1..n -> AuthAtoms] : n \in 0..MaxAuthLen}

Authorizations == {NoHeader} \cup {Header(a) : a \in AuthTexts}

ApiKeys == {NoHeader, Header(<<>>), Header(Secret)}

AllRequests ==
  [method : {"POST", "GET", "OPTIONS", "PUT"}, contentType : ContentTypes,
   authorization : Authorizations, xff : {NoXff}]

GoodRequest ==
  [method |-> "POST", contentType |-> Header(<<"application/json">>),
   authorization |-> Header(<<"Bearer", " ", "key">>), xff |-> NoXff]

\* the requests of the whole-handler specification
MainRequests ==
  [method : {"POST", "GET", "OPTIONS"},
   contentType : {NoHeader, Header(<<"application/json">>), Header(<<"text/plain">>)},
   authorization : {NoHeader, Header(<<"Bearer", " ", "key">>),
                    Header(<<"Bearer", " ", "bad">>), Header(<<"key">>),
                    Header(<<"Bearer", " ">>)},
   xff : {NoXff}]

BulkData ==
  Obj({<<"dataType", JStr("bulk-assessment")>>, <<"name", JStr("John Doe")>>,
       <<"email", JStr("john@example.com")>>, <<"phoneNumber", JStr("123-456-7890")>>,
       <<"numberOfAssessments", JNum(25)>>})

\* a live event with the four required fields and nothing else
LiveData ==
  Obj({<<"dataType", JStr("live-event")>>, <<"name", JStr("Jane Smith")>>,
       <<"email", JStr("jane@example.com")>>, <<"phoneNumber", JStr("987-654-3210")>>,
       <<"estimatedAttendees", JNum(30)>>})

ReferralInfo ==
  Obj({<<"source", JStr("Google")>>, <<"moreInfo", JStr("Searched")>>})

\* a live event as the front end sends it
LiveDataFull ==
  With(With(With(With(With(LiveData,
    "jobTitle", JStr("HR Director")),
    "organizationName", JStr("Test Corp")),
    "websiteUrl", JStr("https://test-corp.example.com")),
    "desiredFormats", JArr(<<JStr("Interactive"), JStr("Presentation")>>)),
    "referralInfo", ReferralInfo)

EventDates ==
  {JStr("2023-07-15"), JStr(""),
   Obj({<<"startDate", JStr("2023-07-15")>>, <<"endDate", JStr("2023-07-17")>>})}

SignupData ==
  Obj({<<"dataType", JStr("user-signup")>>, <<"email", JStr("user@example.com")>>,
       <<"firstName", JStr("Alex")>>, <<"createdDate", JStr("2023-05-01T12:00:00Z")>>})

\* the legacy shape inside data: a tab name and the rows
LegacyData ==
  Obj({<<"tabName", JStr("Sheet1")>>,
       <<"values", JArr(<<Obj({<<"Name", JStr("John Doe")>>})>>)>>})

RequiredOf(data) ==
  CASE Get(data, "dataType") = JStr("bulk-assessment") -> Range(BulkRequiredFields)
    [] Get(data, "dataType") = JStr("live-event") -> Range(LiveRequiredFields)
    [] Get(data, "dataType") = JStr("user-signup") -> {"email"}
    [] OTHER -> {}

\* the payloads of the whole-handler specification
MainData ==
  {BulkData, LiveData, LiveDataFull, SignupData, LegacyData,
   Obj({<<"dataType", JStr("other")>>, <<"email", JStr("user@example.com")>>}),
   JStr("text")}
  \cup {With(LiveDataFull, "eventDate", d) : d \in EventDates}
  \cup UNION {{Without(d, {f}) : f \in RequiredOf(d)} :
                d \in {BulkData, LiveDataFull, SignupData}}

MainBodies ==
  {InvalidJson, JNull, Obj({}),
   Obj({<<"sheetId", JStr("sheet-req")>>, <<"tabName", JStr("Sheet1")>>,
        <<"values", JArr(<<Obj({<<"Name", JStr("John Doe")>>})>>)>>})}
  \cup {Obj({<<"data", d>>}) : d \in MainData}
  \cup {Obj({<<"data", d>>, <<"sheetId", JStr("sheet-req")>>}) :
          d \in {BulkData}}

ServiceAccount ==
  Obj({<<"client_email", JStr("svc@example.iam")>>, <<"private_key", JStr("PEM")>>})

GoodRawKey == JsonText(ServiceAccount, JStr("svc@example.iam"), JStr("PEM"))

\* a raw configuration that parses but lacks private_key
PartialRawKey ==
  JsonText(Obj({<<"client_email", JStr("svc@example.iam")>>}),
           JStr("svc@example.iam"), Undef)

NoCall == [fn |-> "none", out |-> [pending |-> FALSE]]

\* the state after construction
InitFresh ==
  /\ now = 0
  /\ ipRequestMap = <<>>
  /\ window = <<>>
  /\ reqs = [r \in Reqs |-> Idle]
  /\ sheets = [id \in SheetIds |-> <<>>]

\* An instance that has answered RATE_LIMIT_NUM - 3 requests of the client
\* "unknown" in the window that began at 0, none of which got past
\* validateRequest: a state that SpecRate reaches from InitFresh (Warm).
Served == RATE_LIMIT_NUM - 3

Warm ==
  /\ now = 0
  /\ ipRequestMap = ("unknown" :> [count |-> Served,
                                   resetTime |-> RATE_LIMIT_WINDOW_MS])
  /\ window = ("unknown" :> [start |-> 0, passed |-> [i \in 1..Served |-> TRUE],
                             blocked |-> FALSE])
  /\ reqs = [r \in Reqs |-> Idle]
  /\ sheets = [id \in SheetIds |-> <<>>]

(***************************************************************************)
(* Spec: the whole handler, one request at a time, in either revision.     *)
(***************************************************************************)
Init ==
  /\ Warm
  /\ call = NoCall
  /\ rev \in Revisions
  /\ env \in [apiKey : ApiKeys, sheetId : {Undef, JStr("sheet-env")},
              base64Key : {NoText}, rawKey : {NoText, GoodRawKey, PartialRawKey},
              slackUrl : BOOLEAN, edgeRuntime : BOOLEAN]

Next ==
  \E r \in {"r1"} :
    \/ \E req \in MainRequests : Receive(r, req)
    \/ Validate(r)
    \/ \E body \in MainBodies : ParseBody(r, body)
    \/ Normalize(r)
    \/ GetCreds(r)
    \/ \E ok \in BOOLEAN : Auth(r, ok)
    \/ \E ok \in BOOLEAN : LoadInfo(r, ok)
    \/ \E ok \in BOOLEAN : AddSheet(r, ok)
    \/ \E ok \in BOOLEAN : LoadCells(r, ok)
    \/ \E ok \in BOOLEAN : SaveCells(r, ok)
    \/ \E ok \in BOOLEAN : AddRows(r, ok)
    \/ Notify(r)
    \/ \E outcome \in {"ok", "notOk", "threw"} : Deliver(r, outcome)
    \/ Finish(r)

Spec == Init /\ [][Next]_vars

(***************************************************************************)
(* SpecRate: the rate limiter under a moving clock, two client             *)
(* identifiers, requests that end at the validator or at the data check.   *)
(***************************************************************************)
GoodEnv ==
  [apiKey |-> Header(Secret), sheetId |-> JStr("sheet-env"), base64Key |-> NoText,
   rawKey |-> GoodRawKey, slackUrl |-> TRUE, edgeRuntime |-> FALSE]

RateRequests ==
  {[GoodRequest EXCEPT !.xff = x, !.method = m] :
     x \in {NoXff, [has |-> TRUE, v |-> "203.0.113.7"]}, m \in {"POST", "GET"}}

InitRate ==
  /\ InitFresh
  /\ call = NoCall
  /\ rev \in Revisions
  /\ env = GoodEnv

NextRate ==
  \/ \E r \in {"r1"} :
       \/ \E req \in RateRequests : Receive(r, req)
       \/ Validate(r)
       \/ ParseBody(r, Obj({}))
       \/ Normalize(r)
       \/ Finish(r)
  \/ Tick

SpecRate == InitRate /\ [][NextRate]_vars

(***************************************************************************)
(* SpecValidate: validateRequest on every request of AllRequests under     *)
(* every configuration of the shared secret.                               *)
(***************************************************************************)
InitCall ==
  /\ InitFresh
  /\ rev = "index.ts"
  /\ env = GoodEnv

InitValidate ==
  /\ InitCall
  /\ call \in [fn : {"validateRequest"}, req : AllRequests, apiKey : ApiKeys,
                out : {Pending}]

NextValidate == CallValidateRequest

SpecValidate == InitValidate /\ [][NextValidate]_vars

(***************************************************************************)
(* SpecNormalize: the normalizer of either revision on every payload of    *)
(* AllData.                                                                *)
(***************************************************************************)
OptionalOf(data) == {"referralInfo", "firstName", "createdDate"} \cap DOMAIN data.f

AllData ==
  UNION {{Without(d, drop) : drop \in SUBSET (RequiredOf(d) \cup OptionalOf(d))} :
           d \in {BulkData, LiveDataFull, SignupData}
                 \cup {With(LiveDataFull, "eventDate", e) : e \in EventDates}}
  \cup {LegacyData, Obj({<<"dataType", JStr("other")>>})}

InitNormalize ==
  /\ InitCall
  /\ call \in [fn : {"normalize"}, rev : Revisions, data : AllData, at : {0, 1},
                out : {Pending}]

NextNormalize == CallNormalize

SpecNormalize == InitNormalize /\ [][NextNormalize]_vars

(***************************************************************************)
(* The properties.  What a request has been through is read from its       *)
(* record: the steps it has executed, its response, its position.          *)
(***************************************************************************)
\* the request has been given an error response
Failed(r) == reqs[r].resp.status \notin {0, 200}

\* the handler has nothing left to run for the request but the failure report
Ended(r) == reqs[r].pc \in {"done", "notify", "awaitNotify"}

IsPipelineStep(tag) == tag # "notifySlack"

\* the steps of the request without the calls of the failure reporter
Pipeline(r) == SelectSeq(reqs[r].steps, IsPipelineStep)

\* the component of the pipeline that a step belongs to: 1 the rate limiter,
\* 2 the validator, 3 the normalizer, 4 the credential resolver, 5 the sink
StageOf(tag) ==
  CASE tag = "rateLimit" -> 1
    [] tag = "validateRequest" -> 2
    [] tag \in {"readBody", "normalize"} -> 3
    [] tag = "getServiceAccountCreds" -> 4
    [] OTHER -> 5

\* C1: of the requests one client issues inside one window of 60 seconds the
\* first 10 pass the rate limiter and every later one is answered 429 without
\* going further; the first request after the window has elapsed counts as
\* request 1 of a new window and passes again.
C1_TenPerWindow ==
  /\ RATE_LIMIT_WINDOW_MS = 60 * 1000
  /\ \A ip \in DOMAIN window : \A i \in 1..Len(window[ip].passed) :
       window[ip].passed[i] <=> (i <= 10)
  /\ \A r \in Reqs : reqs[r].nth > 0 =>
       /\ (reqs[r].resp.status = 429) <=> (reqs[r].nth > 10)
       /\ (reqs[r].nth > 10) => (reqs[r].pc = "done" /\ reqs[r].steps = <<"rateLimit">>)
       /\ (reqs[r].nth <= 10) => (reqs[r].pc # "done" \/ Len(reqs[r].steps) > 1)

\* a client whose last window saw a request refused issues the first request
\* of a new window, which passes the limiter, the validator and is read
C1_Witness ==
  \E r \in Reqs :
    /\ reqs[r].nth = 1
    /\ window[clientIp(reqs[r].req)].blocked
    /\ window[clientIp(reqs[r].req)].start > 60 * 1000
    /\ reqs[r].pc = "normalize"

\* the steps of a request follow the order of the pipeline, no component is
\* entered before the ones in front of it have run, a failed request has
\* ended, and a request answered with success has been through all of them
C2_Order ==
  \A r \in Reqs :
    LET s == Pipeline(r)
    IN /\ \A i \in 1..Len(s) : \A j \in (i + 1)..Len(s) :
            /\ StageOf(s[i]) <= StageOf(s[j])
            /\ s[i] # s[j]
       /\ \A i \in 1..Len(s) : \A st \in 1..(StageOf(s[i]) - 1) :
            \E j \in 1..(i - 1) : StageOf(s[j]) = st
       /\ Failed(r) => Ended(r)
       /\ reqs[r].resp.success =>
            /\ {StageOf(s[i]) : i \in 1..Len(s)} = 1..5
            /\ s[Len(s)] = "addRows"
       /\ (Failed(r) /\ StageOf(s[Len(s)]) <= 3) =>
            /\ reqs[r].appended = Idle.appended
            /\ reqs[r].seen = {}

\* once a request has failed, no step of the pipeline is executed for it
C2_NoStepAfterFailure ==
  \A r \in Reqs :
    (Failed(r) /\ reqs'[r].pc # "idle") =>
      /\ Failed(r)'
      /\ Pipeline(r)' = Pipeline(r)

\* C2: within one request the steps run in the order rate limiter, validator,
\* normalizer, credential resolver, sink, response; a failure at any step ends
\* the request with an error response and no later step is executed for it.
C2_Pipeline == []C2_Order /\ [][C2_NoStepAfterFailure]_vars

\* a request refused by the normalizer after the limiter and the validator
C2_Witness ==
  \E r \in Reqs :
    /\ reqs[r].pc = "done"
    /\ reqs[r].resp.status = 400
    /\ reqs[r].steps = <<"rateLimit", "validateRequest", "readBody", "normalize">>

\* the five checks, stated on the request itself
JsonContentType(req) ==
  req.contentType.has /\
  \E i \in 1..Len(req.contentType.v) : req.contentType.v[i] = "application/json"

HasAuthorization(req) == req.authorization.has /\ req.authorization.v # <<>>

\* the word Bearer, one space, and a text without a space
BearerAndToken(req) ==
  LET a == req.authorization.v
  IN /\ Len(a) >= 2
     /\ a[1] = "Bearer"
     /\ a[2] = " "
     /\ \A i \in 3..Len(a) : a[i] # " "

TokenOf(req) == SubSeq(req.authorization.v, 3, Len(req.authorization.v))

TokenMatches(req, apiKey) ==
  apiKey.has /\ apiKey.v # <<>> /\ TokenOf(req) = apiKey.v

\* the status of the first check that fails, 0 when none does
FirstFailing(req, apiKey) ==
  CASE ~JsonContentType(req) -> 400
    [] JsonContentType(req) /\ req.method # "POST" -> 405
    [] JsonContentType(req) /\ req.method = "POST" /\ ~HasAuthorization(req) -> 401
    [] JsonContentType(req) /\ req.method = "POST" /\ HasAuthorization(req)
         /\ ~BearerAndToken(req) -> 401
    [] JsonContentType(req) /\ req.method = "POST" /\ HasAuthorization(req)
         /\ BearerAndToken(req) /\ ~TokenMatches(req, apiKey) -> 401
    [] OTHER -> 0

Returned == call.fn = "validateRequest" /\ call.out # Pending

\* C3: validateRequest answers with the rejection of the first failing check
\* in the order content type (400), method (405), Authorization present
\* (401), Bearer and token (401), token equal to the secret (401), and with
\* success only when all five pass.
C3_FirstFailingCheck ==
  Returned =>
    /\ call.out.status = FirstFailing(call.req, call.apiKey)
    /\ call.out.success <=> (FirstFailing(call.req, call.apiKey) = 0)
    /\ (~JsonContentType(call.req)) => call.out.status = 400

\* a request that is neither JSON nor POST and carries no valid token: 400
C3_Witness ==
  /\ Returned
  /\ ~JsonContentType(call.req)
  /\ call.req.method = "GET"
  /\ ~HasAuthorization(call.req)
  /\ call.out.status = 400

C5_RejectedBeforeBody ==
  \A r \in Reqs :
    (reqs[r].pc # "idle" /\
     (~JsonContentType(reqs[r].req) \/ reqs[r].req.method # "POST")) =>
      /\ \A i \in 1..Len(reqs[r].steps) :
           reqs[r].steps[i] \in {"rateLimit", "validateRequest"}
      /\ reqs[r].body = Undef
      /\ ~reqs[r].resp.success
      /\ (reqs[r].pc = "done" /\ reqs[r].req.method # "OPTIONS") =>
           /\ reqs[r].resp.status \in {400, 405, 429}
           /\ reqs[r].resp.status = 429 \/
                reqs[r].resp.status = IF JsonContentType(reqs[r].req) THEN 405 ELSE 400

\* a GET with a JSON content type and the right token has been refused 405
C5_Witness ==
  \E r \in Reqs :
    /\ reqs[r].pc = "done"
    /\ reqs[r].req.method = "GET"
    /\ JsonContentType(reqs[r].req)
    /\ reqs[r].req.authorization = Header(<<"Bearer", " ", "key">>)
    /\ reqs[r].resp.status = 405
    /\ reqs[r].steps = <<"rateLimit", "validateRequest">>

\* the request got past the limiter and the validator and its body was read
\* as an object; the deployment has its spreadsheet configured
Admitted(r) ==
  /\ Ended(r)
  /\ Len(reqs[r].steps) >= 4
  /\ SubSeq(reqs[r].steps, 1, 4) =
       <<"rateLimit", "validateRequest", "readBody", "normalize">>
  /\ reqs[r].body.t = "object"
  /\ Truthy(env.sheetId)

\* the request touched the spreadsheet
TouchedSheet(r) ==
  \E i \in 1..Len(Pipeline(r)) : StageOf(Pipeline(r)[i]) = 5

\* the required fields of the three variants
RequiredFields(dataType) ==
  CASE dataType = JStr("bulk-assessment") ->
         {"name", "email", "phoneNumber", "numberOfAssessments"}
    [] dataType = JStr("live-event") ->
         {"name", "email", "phoneNumber", "estimatedAttendees"}
    [] dataType = JStr("user-signup") -> {"email"}
    [] OTHER -> {}

Variants == {JStr("bulk-assessment"), JStr("live-event"), JStr("user-signup")}

IsVariant(data) == data.t = "object" /\ Get(data, "dataType") \in Variants

MissingOf(data) == RequiredFields(Get(data, "dataType")) \ DOMAIN data.f

\* C6: a request that passes rate limiting and validation and omits one
\* required field of its variant is answered 400 with a message that names
\* the field, and nothing is appended.
C6_MissingFieldRefused ==
  \A r \in Reqs :
    LET data == Get(reqs[r].body, "data")
    IN (Admitted(r) /\ IsVariant(data) /\ Cardinality(MissingOf(data)) = 1) =>
         /\ reqs[r].resp.status = 400
         /\ \E f \in MissingOf(data) :
              reqs[r].resp.error = "Missing required fields: " \o f
         /\ ~TouchedSheet(r)

\* the canonical header list of a variant
CanonicalHeaders(dataType) ==
  CASE dataType = JStr("bulk-assessment") ->
         {"Name", "Email", "Phone Number", "Number of Assessments", "Submission Date"}
    [] dataType = JStr("live-event") -> Range(LIVE_EVENT_HEADERS)
    [] dataType = JStr("user-signup") ->
         {"Email", "First Name", "Last Name", "Created Date", "Signup Date"}

Normalized == call.fn = "normalize" /\ call.out # Pending

\* C7: given all required fields, each of the three variants is normalized
\* to one row whose column names are exactly the variant's canonical headers.
C7_RowMatchesHeaders ==
  (Normalized /\ IsVariant(call.data) /\ MissingOf(call.data) = {}) =>
    /\ call.out.kind = "rows"
    /\ Len(call.out.rows) = 1
    /\ DOMAIN call.out.rows[1] = CanonicalHeaders(Get(call.data, "dataType"))

\* C8: past the limiter and the validator, an unknown dataType is answered
\* 400 "Unknown data type" and a body without data is answered 400 with the
\* top-level keys received; neither touches the spreadsheet.
C8_UnknownTypeAndNoData ==
  \A r \in Reqs :
    LET data == Get(reqs[r].body, "data")
        dataType == Get(data, "dataType")
    IN Admitted(r) =>
         /\ (data.t = "object" /\ dataType.t = "string" /\ dataType \notin Variants) =>
              /\ reqs[r].resp.status = 400
              /\ reqs[r].resp.error \in
                   {"Unknown data type", "Unknown data type: " \o ToStr(dataType)}
              /\ ~TouchedSheet(r)
         /\ ~HasKey(reqs[r].body, "data") =>
              /\ reqs[r].resp.status = 400
              /\ reqs[r].resp.hasKeys
              /\ reqs[r].resp.keys = DOMAIN reqs[r].body.f
              /\ ~TouchedSheet(r)

\* the destination tab of a variant
TabOfVariant(dataType) ==
  CASE dataType = JStr("bulk-assessment") -> "Bulk Assessments"
    [] dataType = JStr("live-event") -> "Live Events"
    [] dataType = JStr("user-signup") -> "User Signups"

\* C9: each of the three variants goes to its own tab; a user-signup with an
\* email that passes the limiter and the validator is not refused by the
\* normalizer, and where the request succeeds its row is in "User Signups".
C9_ThreeVariantsRouted ==
  \A r \in Reqs :
    LET data == Get(reqs[r].body, "data")
    IN (Admitted(r) /\ IsVariant(data) /\ MissingOf(data) = {}) =>
         /\ reqs[r].resp.success =>
              reqs[r].appended.tab = TabOfVariant(Get(data, "dataType"))
         /\ Get(data, "dataType") = JStr("user-signup") =>
              ~(reqs[r].resp.status = 400 /\ Len(reqs[r].steps) = 4)

\* the Event Date that the claim gives for an eventDate
EventDateColumn(eventDate) ==
  IF eventDate = Undef THEN JStr("")
  ELSE IF eventDate.t = "string" THEN eventDate
  ELSE JStr(Get(eventDate, "startDate").s \o " - " \o Get(eventDate, "endDate").s)

\* C10: the Event Date column of a live-event row is the eventDate itself
\* when it is a string, "<startDate> - <endDate>" when it is a pair, and the
\* empty string when there is none.
C10_EventDate ==
  (Normalized /\ Get(call.data, "dataType") = JStr("live-event")
     /\ call.out.kind = "rows") =>
    call.out.rows[1]["Event Date"] = EventDateColumn(Get(call.data, "eventDate"))

\* the request got past the limiter and the validator, its body was read as
\* an object and the handler has been through its normalizer section
Normalizing(r) ==
  /\ Len(reqs[r].steps) >= 4
  /\ SubSeq(reqs[r].steps, 1, 4) =
       <<"rateLimit", "validateRequest", "readBody", "normalize">>
  /\ reqs[r].body.t = "object"

\* the request resolved credentials or touched the spreadsheet
WentOn(r) == \E i \in 1..Len(Pipeline(r)) : StageOf(Pipeline(r)[i]) >= 4

\* C11: the destination spreadsheet is the sheetId of the request body when
\* there is one, otherwise the configured default; with neither the request
\* ends with 400 and neither credentials nor the spreadsheet are touched.
C11_SheetIdFallback ==
  \A r \in Reqs :
    LET wanted == OrElse(Get(reqs[r].body, "sheetId"), env.sheetId)
    IN Normalizing(r) =>
         IF Truthy(wanted)
           THEN /\ WentOn(r) => reqs[r].sheetId = wanted
                /\ reqs[r].resp.success => reqs[r].appended.sheet = ToStr(wanted)
         ELSE /\ Ended(r)
              /\ reqs[r].resp.status = 400
              /\ ~WentOn(r)

(***************************************************************************)
(* SpecCreds: getServiceAccountCreds on every pair of configured texts.    *)
(***************************************************************************)
\* what the regular expression of a field captures in JSON.stringify(v): the
\* first non-empty string under that key, at the top or one level down
FindField(v, key) ==
  LET own(o) == o.t = "object" /\ HasKey(o, key) /\ Get(o, key).t = "string"
                /\ Truthy(Get(o, key))
  IN IF v.t # "object" THEN Undef
     ELSE IF own(v) THEN Get(v, key)
     ELSE IF \E k \in DOMAIN v.f : own(v.f[k])
       THEN Get(v.f[CHOOSE k \in DOMAIN v.f : own(v.f[k])], key)
     ELSE Undef

\* JSON.stringify(v)
Stringify(v) ==
  JsonText(v, FindField(v, "client_email"), FindField(v, "private_key"))

\* JSON.stringify(JSON.stringify(v)): the inner quotes are escaped, so the
\* regular expressions find nothing
DoubleEncoded(v) == JsonText(JText(Stringify(v)), Undef, Undef)

\* a text that atob rejects
NotBase64 == [has |-> TRUE, kind |-> "text"]

OtherAccount ==
  Obj({<<"client_email", JStr("other@example.iam")>>, <<"private_key", JStr("PEM2")>>})

CredValues ==
  {ServiceAccount, OtherAccount, JNull, JNum(1), Obj({}),
   Obj({<<"client_email", JStr("svc@example.iam")>>}),
   Obj({<<"client_email", JStr("svc@example.iam")>>, <<"private_key", JStr("")>>}),
   Obj({<<"nested", ServiceAccount>>})}

RawKeys ==
  {NoText} \cup {Stringify(v) : v \in CredValues}
  \cup {DoubleEncoded(v) : v \in CredValues}
  \cup {BrokenText(e, k) : e \in {Undef, JStr("svc@example.iam")},
                           k \in {Undef, JStr("PEM")}}

Base64Keys ==
  {NoText, NotBase64}
  \cup {Base64Text(t) : t \in {Stringify(v) : v \in CredValues}
                              \cup {DoubleEncoded(ServiceAccount),
                                    BrokenText(Undef, Undef)}}

CallGetServiceAccountCreds ==
  /\ call.fn = "getServiceAccountCreds"
  /\ call.out = Pending
  /\ call' = [call EXCEPT
                !.out = getServiceAccountCreds(call.base64Key, call.rawKey),
                !.tried = sourcesTried(call.base64Key, call.rawKey)]
  /\ UNCHANGED <<rev, env, now, ipRequestMap, window, reqs, sheets>>

InitCreds ==
  /\ InitCall
  /\ call \in [fn : {"getServiceAccountCreds"}, base64Key : Base64Keys,
                rawKey : RawKeys, out : {Pending}, tried : {<<>>}]

NextCreds == CallGetServiceAccountCreds

SpecCreds == InitCreds /\ [][NextCreds]_vars

\* the value a configured text stands for once decoded and parsed (twice when
\* the first parse gives a string), or nothing
Configured(text) ==
  IF ~text.has \/ text.kind # "json" THEN Undef
  ELSE IF text.v.t = "string" /\ "text" \in DOMAIN text.v
    THEN (IF text.v.text.kind = "json" THEN text.v.text.v ELSE Undef)
  ELSE text.v

\* the value holds both fields
Complete(v) ==
  /\ v.t = "object"
  /\ {"client_email", "private_key"} \subseteq DOMAIN v.f
  /\ Truthy(v.f["client_email"]) /\ Truthy(v.f["private_key"])

PairOf(v) == [client_email |-> v.f["client_email"], private_key |-> v.f["private_key"]]

\* what each source offers for the configuration of the call: a pair or Undef
Base64Offer ==
  LET b == call.base64Key
  IN IF b.has /\ b.kind = "base64" /\ b.of.kind = "json" /\ Complete(b.of.v)
       THEN PairOf(b.of.v) ELSE Undef

RawOffer ==
  IF Complete(Configured(call.rawKey)) THEN PairOf(Configured(call.rawKey))
  ELSE Undef

RegexOffer ==
  LET t == call.rawKey
  IN IF t.has /\ t.emailMatch # Undef /\ t.keyMatch # Undef
       THEN [client_email |-> t.emailMatch, private_key |-> t.keyMatch]
     ELSE Undef

Offers == <<Base64Offer, RawOffer, RegexOffer>>

Resolved == call.fn = "getServiceAccountCreds" /\ call.out # Pending

\* C12: the sources are tried in the order base64, raw JSON, regex; the first
\* that yields both fields wins, a later source is consulted only when every
\* earlier one failed, and the failure of a source never keeps the next from
\* being tried.
C12_FirstSourceWins ==
  Resolved =>
    LET n == Len(call.tried)
    IN /\ call.tried = SubSeq(<<"base64", "raw", "regex">>, 1, n)
       /\ n >= 1
       /\ \A i \in 1..(n - 1) : Offers[i] = Undef
       /\ (n < 3) => Offers[n] # Undef
       /\ IF Offers[n] # Undef
            THEN /\ call.out.ok
                 /\ call.out.client_email = Offers[n].client_email
                 /\ call.out.private_key = Offers[n].private_key
          ELSE ~call.out.ok

\* a base64 value that cannot be decoded, and the raw JSON that then wins
C12_Witness ==
  /\ Resolved
  /\ call.base64Key = NotBase64
  /\ call.rawKey = Stringify(OtherAccount)
  /\ call.tried = <<"base64", "raw">>
  /\ call.out = CredsOk(JStr("other@example.iam"), JStr("PEM2"))

\* C13: with no base64 configuration, the double-encoded raw configuration of
\* a credential object resolves to the pair that the single-encoded
\* configuration of the same object resolves to, which is the object's own.
C13_DoubleEncodingSamePair ==
  \A v \in CredValues :
    (Resolved /\ call.base64Key = NoText /\ Complete(v)
       /\ call.rawKey = DoubleEncoded(v)) =>
      /\ call.out = getServiceAccountCreds(NoText, Stringify(v))
      /\ call.out.ok
      /\ call.out.client_email = v.f["client_email"]
      /\ call.out.private_key = v.f["private_key"]

\* the double-encoded account has been resolved through the raw attempt
C13_Witness ==
  /\ Resolved
  /\ call.base64Key = NoText
  /\ call.rawKey = DoubleEncoded(ServiceAccount)
  /\ call.tried = <<"base64", "raw">>
  /\ call.out.ok

\* C14: no spreadsheet operation is attempted in a request unless credential
\* resolution returned a pair with non-empty client_email and private_key;
\* when no source yields both, the request ends with 500 and the spreadsheet
\* is not touched.
C14_CredentialsBeforeSink ==
  \A r \in Reqs :
    /\ TouchedSheet(r) =>
         /\ reqs[r].creds.ok
         /\ Truthy(reqs[r].creds.client_email)
         /\ Truthy(reqs[r].creds.private_key)
         /\ \E i \in 1..Len(reqs[r].steps) : reqs[r].steps[i] = "getServiceAccountCreds"
    /\ (Len(Pipeline(r)) > 4
          /\ ~env.base64Key.has
          /\ ~Complete(Configured(env.rawKey))
          /\ (env.rawKey.has => (env.rawKey.emailMatch = Undef
                                  \/ env.rawKey.keyMatch = Undef))) =>
         /\ Pipeline(r)[5] = "getServiceAccountCreds"
         /\ Len(Pipeline(r)) = 5
         /\ Ended(r)
         /\ reqs[r].resp.status = 500
         /\ ~TouchedSheet(r)

\* a configuration without private_key: the request has ended with 500 at the
\* credential resolver
C14_Witness ==
  \E r \in Reqs :
    /\ env.rawKey = PartialRawKey
    /\ reqs[r].pc = "done"
    /\ reqs[r].resp.status = 500
    /\ Pipeline(r)[Len(Pipeline(r))] = "getServiceAccountCreds"

\* the tabs of the three tagged variants
TaggedTabs == {BULK_ASSESSMENT_TAB, LIVE_EVENT_TAB, USER_SIGNUP_TAB}

\* the request has just written the header cells
WritesHeader(r) ==
  /\ reqs[r].pc = "saveCells"
  /\ reqs'[r].pc = "append"

\* a header row is written only for a variant with a canonical header list,
\* into a tab whose cell [0,0] is empty: one that holds neither a header row
\* nor a data row
C15_HeaderWrite ==
  \A r \in Reqs :
    WritesHeader(r) =>
      /\ Len(reqs[r].norm.headers) > 0
      /\ sheets[SheetOf(r)][TabOf(r)] = <<>>
      /\ sheets'[SheetOf(r)][TabOf(r)] = <<"header">>

\* whatever a tab holds stays where it is: rows are added at the end, and a
\* header only into an empty tab
C15_NothingRewritten ==
  \A id \in SheetIds : \A tab \in DOMAIN sheets[id] :
    /\ tab \in DOMAIN sheets'[id]
    /\ Len(sheets'[id][tab]) >= Len(sheets[id][tab])
    /\ SubSeq(sheets'[id][tab], 1, Len(sheets[id][tab])) = sheets[id][tab]

\* in the revision with the header lists a tab of a variant that holds data
\* starts with its one header row, and a request appends only below it
C15_HeaderFirst ==
  /\ \A id \in SheetIds : \A tab \in DOMAIN sheets[id] :
       \A i \in 1..Len(sheets[id][tab]) :
         /\ (sheets[id][tab][i] = "header") => i = 1
         /\ (rev = "three-variants" /\ tab \in TaggedTabs) =>
              (sheets[id][tab][i] = "header" <=> i = 1)
  /\ \A r \in Reqs :
       (reqs[r].pc = "append" /\ Len(reqs[r].norm.headers) > 0) =>
         /\ TabOf(r) \in DOMAIN sheets[SheetOf(r)]
         /\ sheets[SheetOf(r)][TabOf(r)] # <<>>
         /\ sheets[SheetOf(r)][TabOf(r)][1] = "header"

\* C15: in the tagged-payload path the header row is written only when the
\* variant has a canonical header list and cell [0,0] of the tab is empty,
\* and before the data row is appended; over successive requests to one tab
\* it is written at most once and every data row comes after it.
C15_HeaderOnceBeforeRows ==
  []C15_HeaderFirst /\ [][C15_HeaderWrite /\ C15_NothingRewritten]_vars

\* a tab of a variant after two successful requests: one header, two rows
C15_Witness ==
  /\ rev = "three-variants"
  /\ \E id \in SheetIds : \E tab \in TaggedTabs \cap DOMAIN sheets[id] :
       sheets[id][tab] = <<"header", "row", "row">>

HasStep(r, tag) == \E i \in 1..Len(reqs[r].steps) : reqs[r].steps[i] = tag

\* the request has loaded the spreadsheet and looked its tab up
LookedUp(r) ==
  /\ HasStep(r, "loadInfo")
  /\ ~(Failed(r) /\ Pipeline(r)[Len(Pipeline(r))] = "loadInfo")

\* a request that did not find its tab is creating it or has tried to, one
\* that found it never calls addSheet, and a row is appended to the tab that
\* the normalizer named
C16_CreateWhenAbsent ==
  \A r \in Reqs :
    LookedUp(r) =>
      /\ (TabOf(r) \notin reqs[r].seen) <=>
           (reqs[r].pc = "addSheet" \/ HasStep(r, "addSheet"))
      /\ reqs[r].resp.success =>
           /\ reqs[r].appended.tab = TabOf(r)
           /\ TabOf(r) \in DOMAIN sheets[SheetOf(r)]
           /\ sheets[SheetOf(r)][TabOf(r)] # <<>>

\* a tab appears only through the addSheet of a request whose tab was absent,
\* under the name the normalizer gave, and empty
C16_OnlyAbsentTabsCreated ==
  \A id \in SheetIds :
    (DOMAIN sheets'[id] # DOMAIN sheets[id]) =>
      \E r \in Reqs :
        /\ reqs[r].pc = "addSheet"
        /\ SheetOf(r) = id
        /\ TabOf(r) \notin DOMAIN sheets[id]
        /\ DOMAIN sheets'[id] = DOMAIN sheets[id] \cup {TabOf(r)}
        /\ sheets'[id][TabOf(r)] = <<>>

\* C16: when the tab named by the normalizer does not exist the sink creates
\* it and then appends the row to the new tab; when it exists no tab is
\* created.
C16_TabCreatedWhenAbsent ==
  []C16_CreateWhenAbsent /\ [][C16_OnlyAbsentTabsCreated]_vars

\* a request that created its tab and appended its row to it
C16_Witness ==
  \E r \in Reqs :
    /\ reqs[r].resp.success
    /\ HasStep(r, "addSheet")
    /\ TabOf(r) \notin reqs[r].seen
    /\ reqs[r].appended.tab = TabOf(r)

\* the steps that locate or create the tab and write its header row
HeaderSteps == {"addSheet", "loadCells", "saveUpdatedCells"}

\* the append is attempted only on a tab that exists and, where the variant
\* has a header list, holds its header row; a request that failed in a header
\* step has ended with an error and without an append
C17_AppendAfterHeader ==
  \A r \in Reqs :
    /\ (reqs[r].pc = "append" \/ HasStep(r, "addRows")) =>
         /\ TabOf(r) \in DOMAIN sheets[SheetOf(r)]
         /\ (rev = "three-variants" /\ Len(reqs[r].norm.headers) > 0) =>
              /\ sheets[SheetOf(r)][TabOf(r)] # <<>>
              /\ sheets[SheetOf(r)][TabOf(r)][1] = "header"
    /\ (Failed(r) /\ Pipeline(r)[Len(Pipeline(r))] \in HeaderSteps) =>
         /\ Ended(r)
         /\ reqs[r].resp.status = 400
         /\ ~reqs[r].resp.success
         /\ ~HasStep(r, "addRows")
         /\ reqs[r].appended = Idle.appended

\* a header step either did what it is for and hands on, or ends the request
\* with an error
C17_HeaderStep ==
  \A r \in Reqs :
    (reqs[r].pc \in {"addSheet", "loadCells", "saveCells"}
       /\ reqs'[r].pc # reqs[r].pc) =>
      \/ /\ reqs'[r].pc \in {"loadCells", "saveCells", "append"}
         /\ ~Failed(r)'
         /\ TabOf(r) \in DOMAIN sheets'[SheetOf(r)]
         /\ reqs[r].pc = "saveCells" => sheets'[SheetOf(r)][TabOf(r)] = <<"header">>
      \/ /\ reqs'[r].pc = "done"
         /\ Failed(r)'
         /\ ~HasStep(r, "addRows")'
         /\ sheets' = sheets

\* C17: locating or creating the tab with its header row, and appending the
\* row, are two steps in sequence: when the first fails the append is not
\* attempted and the request ends with an error response, never with success.
C17_NoAppendAfterFailedHeader ==
  []C17_AppendAfterHeader /\ [][C17_HeaderStep]_vars

\* writing the header row failed: the request has ended with 400, the tab is
\* still empty
C17_Witness ==
  \E r \in Reqs :
    /\ reqs[r].pc = "done"
    /\ reqs[r].resp.status = 400
    /\ Pipeline(r)[Len(Pipeline(r))] = "saveUpdatedCells"
    /\ sheets[SheetOf(r)][TabOf(r)] = <<>>

\* C18: every response with a 5xx status was preceded, in its request, by a
\* call of notifySlack; the rejections 400, 401, 405 and 429 are returned
\* without one.
C18_NotifyBefore5xx ==
  \A r \in Reqs :
    reqs[r].pc = "done" =>
      /\ reqs[r].resp.status >= 500 => HasStep(r, "notifySlack")
      /\ reqs[r].resp.status \in {400, 401, 405, 429} => ~HasStep(r, "notifySlack")

\* C19: a request that failed in the sink (authentication, loadInfo, tab
\* lookup or creation, header row, append) or in the top-level catch has
\* called notifySlack by the time its response is returned.
C19_SinkFailuresReported ==
  \A r \in Reqs :
    (reqs[r].pc = "done" /\ Failed(r)
       /\ (StageOf(Pipeline(r)[Len(Pipeline(r))]) = 5
           \/ reqs[r].resp = Unexpected)) =>
      HasStep(r, "notifySlack")

\* the error response of a reported failure, by the step that failed
ReportedResponse(r) ==
  LET last == Pipeline(r)[Len(Pipeline(r))]
  IN IF last = "addRows" THEN ErrorResp(500, "Error updating Google Sheet")
     ELSE IF rev = "index.ts" /\ last = "useServiceAccountAuth"
       THEN ErrorResp(500, "Authentication with Google Sheets failed")
     ELSE IF rev = "index.ts" /\ last = "loadInfo"
       THEN ErrorResp(500, "Failed to load spreadsheet")
     ELSE ErrorResp(500, "Unexpected error")

\* whatever became of the notification, the response of a reported failure is
\* the one its failing step determines; without a webhook URL no delivery is
\* ever in flight
C20_ResponseFixed ==
  \A r \in Reqs :
    /\ HasStep(r, "notifySlack") =>
         /\ reqs[r].resp = ReportedResponse(r)
         /\ reqs[r].notify \in {"inflight", "ok", "notOk", "threw", "skipped"}
         /\ (reqs[r].notify = "skipped") <=> ~env.slackUrl
    /\ reqs[r].notify # "none" => HasStep(r, "notifySlack")

\* calling notifySlack and the outcome of its delivery leave the response as
\* it is and start no other step
C20_NotifyChangesNothing ==
  \A r \in Reqs :
    (reqs[r].pc \in {"notify", "awaitNotify"} \/ reqs[r].notify = "inflight") =>
      \/ reqs'[r].pc = "idle"
      \/ /\ reqs'[r].resp = reqs[r].resp
         /\ sheets' = sheets
         /\ Pipeline(r)' = Pipeline(r)
         /\ reqs'[r].pc \in {"awaitNotify", "done"}

\* C20: the failure reporter never escalates: the error response of a request
\* is the same whether the notification is delivered, answered non-OK, throws
\* or has no webhook URL; notifySlack never throws and makes no delivery call
\* when the URL is absent.
C20_ReporterNeverEscalates ==
  []C20_ResponseFixed /\ [][C20_NotifyChangesNothing]_vars

\* the delivery threw while the handler awaited it: the response is still the
\* one of the failed append
C20_Witness ==
  \E r \in Reqs :
    /\ reqs[r].pc = "done"
    /\ reqs[r].notify = "threw"
    /\ ~env.edgeRuntime
    /\ reqs[r].resp = ErrorResp(500, "Error updating Google Sheet")

\* the response of a reported failure has been returned
Answered(r) == reqs[r].pc = "done" /\ HasStep(r, "notifySlack")

\* a host without EdgeRuntime.waitUntil returns the response of a reported
\* failure only when the notification is over; no response of a reported
\* failure is returned before notifySlack was called
C21_AwaitedInline ==
  \A r \in Reqs :
    /\ (Answered(r) /\ ~env.edgeRuntime) =>
         reqs[r].notify \in {"ok", "notOk", "threw", "skipped"}
    /\ reqs[r].pc = "awaitNotify" =>
         ~env.edgeRuntime /\ reqs[r].notify = "inflight"
    /\ reqs[r].pc \in {"notify", "awaitNotify"} => reqs[r].resp.status = 500

\* with EdgeRuntime.waitUntil the call of notifySlack and the return of the
\* response are one step, which leaves the delivery in flight; a request that
\* has a failure to report gets its response only through notifySlack
C21_HandedOver ==
  \A r \in Reqs :
    reqs[r].pc = "notify" =>
      /\ reqs'[r].pc \in {"done", "awaitNotify"}
      /\ HasStep(r, "notifySlack")'
      /\ reqs'[r].notify = IF env.slackUrl THEN "inflight" ELSE "skipped"
      /\ env.edgeRuntime => reqs'[r].pc = "done"

\* C21: with EdgeRuntime.waitUntil the notification is handed over as a
\* detached task and the error response is returned without waiting for it;
\* without it the notification completes, successfully or not, before the
\* response is returned. In both cases the notification is started before
\* the response is produced.
C21_DetachedOrAwaited == []C21_AwaitedInline /\ [][C21_HandedOver]_vars

\* the response of a failed append has been returned while the delivery of
\* its notification is still in flight
C21_Witness ==
  \E r \in Reqs :
    /\ Answered(r)
    /\ env.edgeRuntime
    /\ reqs[r].notify = "inflight"
    /\ reqs[r].resp = ErrorResp(500, "Error updating Google Sheet")

\* the operations on services outside the handler, by the step that calls them
ExternalSteps ==
  {"useServiceAccountAuth", "loadInfo", "addSheet", "loadCells",
   "saveUpdatedCells", "addRows", "notifySlack"}

\* the positions at which the handler awaits an external operation
ExternalPcs == {"auth", "load", "addSheet", "loadCells", "saveCells", "append"}

Times(r, tag) == Cardinality({i \in 1..Len(reqs[r].steps) : reqs[r].steps[i] = tag})

\* no external operation appears twice among the steps of one request
C22_AtMostOnce ==
  \A r \in Reqs : \A tag \in ExternalSteps : Times(r, tag) <= 1

\* the step that follows the call of an external operation is never the same
\* call again: the request moves on, or has ended with an error response and
\* the spreadsheet is as the failed call found it; a delivery that is over is
\* not started again
C22_FailureEnds ==
  \A r \in Reqs :
    /\ (reqs[r].pc \in ExternalPcs /\ reqs'[r] # reqs[r]) =>
         /\ reqs'[r].pc # reqs[r].pc
         /\ Len(reqs'[r].steps) = Len(reqs[r].steps) + 1
         /\ \/ ~Failed(r)' /\ reqs'[r].pc \in ExternalPcs \cup {"done"}
            \/ Failed(r)' /\ Ended(r)' /\ sheets' = sheets
    /\ (reqs[r].notify \in {"ok", "notOk", "threw", "skipped"}) =>
         reqs'[r].notify \in {reqs[r].notify, "none"}

\* C22: there are no retries: within one request each external operation
\* (authenticate, load info, add sheet, add rows, notification delivery) is
\* invoked at most once, and the first failure of any of them ends the request
\* with an error response.
C22_NoRetries == []C22_AtMostOnce /\ [][C22_FailureEnds]_vars

\* the append failed once, the failure was reported once and the delivery of
\* the report failed: the request has ended with its 500
C22_Witness ==
  \E r \in Reqs :
    /\ reqs[r].pc = "done"
    /\ reqs[r].resp.status = 500
    /\ Times(r, "addRows") = 1
    /\ Times(r, "notifySlack") = 1
    /\ reqs[r].notify = "threw"
    /\ reqs[r].appended = <<>>

\* a response of one of the two forms
WellFormed(resp) ==
  \/ resp.status = 200 /\ resp.success /\ resp.error = ""
  \/ resp.status \in {400, 401, 405, 429, 500} /\ ~resp.success /\ resp.error # ""

\* a request other than the preflight that has ended has a response of one of
\* the two forms, and a request still under way has at most its error
\* response waiting for the failure report
C23_TwoForms ==
  \A r \in Reqs :
    /\ (Ended(r) /\ reqs[r].req.method # "OPTIONS") => WellFormed(reqs[r].resp)
    /\ (reqs[r].resp.status # 0 /\ reqs[r].req.method # "OPTIONS") =>
         WellFormed(reqs[r].resp) /\ Ended(r)
    /\ reqs[r].resp.success => reqs[r].resp.status = 200

\* the response of a request is produced once: it is never replaced
C23_OneResponse ==
  \A r \in Reqs :
    reqs[r].resp.status # 0 =>
      \/ reqs'[r].resp = reqs[r].resp
      \/ reqs[r].pc = "done" /\ reqs'[r].pc = "idle"

\* C23: every request other than OPTIONS ends with exactly one response, which
\* is either 200 with {success: true, message} or a status of 400, 401, 405,
\* 429, 500 with a body that has an error string; no other status is produced
\* and a success body never comes with a status other than 200.
C23_ResponseForms == []C23_TwoForms /\ [][C23_OneResponse]_vars

\* a POST that failed in a way no inner handler catches has its 500
C23_Witness ==
  \E r \in Reqs :
    /\ reqs[r].pc = "done"
    /\ reqs[r].req.method = "POST"
    /\ reqs[r].resp = Unexpected
    /\ reqs[r].resp.status = 500

\* a body of the legacy shape: tabName and a values array, no data
IsLegacy(body) ==
  /\ body.t = "object"
  /\ {"sheetId", "tabName", "values"} \subseteq DOMAIN body.f
  /\ "data" \notin DOMAIN body.f
  /\ Get(body, "values").t = "array"

\* C24: a request of the legacy shape (top-level sheetId, tabName and values,
\* no data) is accepted and bypasses the normalizer: its rows are appended to
\* the tab it names (or the cells its triples address are updated).
C24_LegacyShapeAccepted ==
  \A r \in Reqs :
    (Ended(r) /\ IsLegacy(reqs[r].body)) =>
      /\ reqs[r].resp.status \notin {400, 405}
      /\ reqs[r].resp = SuccessResp =>
           reqs[r].appended # <<>> /\
           reqs[r].appended.tab = ToStr(Get(reqs[r].body, "tabName"))

(***************************************************************************)
(* SpecConc: two requests handled at once.  The handler of one request     *)
(* runs from one await to the next without interruption; at an await the   *)
(* other request may run.                                                  *)
(***************************************************************************)
ConcRequests == {GoodRequest, [GoodRequest EXCEPT !.method = "GET"]}

ConcBodies == {Obj({<<"data", d>>}) : d \in {BulkData, SignupData}}

InitConc ==
  /\ Warm
  /\ call = NoCall
  /\ rev \in Revisions
  /\ env = GoodEnv

NextConc ==
  \E r \in Reqs :
    \/ \E req \in ConcRequests : Receive(r, req)
    \/ Validate(r)
    \/ \E body \in ConcBodies : ParseBody(r, body)
    \/ Normalize(r)
    \/ GetCreds(r)
    \/ \E ok \in BOOLEAN : Auth(r, ok)
    \/ \E ok \in BOOLEAN : LoadInfo(r, ok)
    \/ \E ok \in BOOLEAN : AddSheet(r, ok)
    \/ \E ok \in BOOLEAN : LoadCells(r, ok)
    \/ \E ok \in BOOLEAN : SaveCells(r, ok)
    \/ \E ok \in BOOLEAN : AddRows(r, ok)
    \/ Notify(r)
    \/ \E outcome \in {"ok", "notOk", "threw"} : Deliver(r, outcome)
    \/ Finish(r)

SpecConc == InitConc /\ [][NextConc]_vars

\* the requests that are past the rate limiter and not yet over
UnderWay == {r \in Reqs : reqs[r].pc \notin {"idle", "done"}}

\* C25: the read-modify-write of a client's rate-limit entry has no suspension
\* point, so under any interleaving of concurrently handled requests no update
\* is lost: after k requests of one client have passed the rate-limit step
\* within one window, that client's stored count is exactly k.
C25_NoLostUpdate ==
  /\ DOMAIN window = DOMAIN ipRequestMap
  /\ \A ip \in DOMAIN ipRequestMap :
       ipRequestMap[ip].count = Len(window[ip].passed)
  /\ \A r \in Reqs : reqs[r].nth > 0 =>
       reqs[r].nth <= ipRequestMap[clientIp(reqs[r].req)].count
  /\ \A r, q \in Reqs :
       (r # q /\ reqs[r].nth > 0 /\ clientIp(reqs[r].req) = clientIp(reqs[q].req)) =>
         reqs[r].nth # reqs[q].nth

\* two requests of one client are under way at once, the second of them
\* counted while the first was suspended
C25_Witness ==
  /\ UnderWay = Reqs
  /\ \A r \in Reqs : clientIp(reqs[r].req) = "unknown"
  /\ reqs["r2"].nth = reqs["r1"].nth + 1
  /\ reqs["r1"].pc = "append"
  /\ ipRequestMap["unknown"].count = reqs["r2"].nth

\* this step is the rate-limit step of a request of client ip
Counted(r, ip) ==
  /\ reqs[r].pc = "idle"
  /\ reqs'[r].pc # "idle"
  /\ reqs'[r].req.method # "OPTIONS"
  /\ clientIp(reqs'[r].req) = ip

\* the entry of a client changes only in the rate-limit step of one of its own
\* requests; up to and including its reset time that step adds one to the
\* count and keeps the reset time, whether the request is admitted or refused;
\* after the reset time it is request 1 of a new window and is admitted
C26_WindowStep ==
  \A ip \in DOMAIN ipRequestMap :
    LET old == ipRequestMap[ip]
        new == ipRequestMap'[ip]
    IN /\ ip \in DOMAIN ipRequestMap'
       /\ (\A r \in Reqs : ~Counted(r, ip)) => new = old
       /\ \A r \in Reqs : Counted(r, ip) =>
            IF now <= old.resetTime
              THEN /\ new = [count |-> old.count + 1, resetTime |-> old.resetTime]
                   /\ (reqs'[r].resp.status = 429) <=> (new.count > 10)
            ELSE /\ new = [count |-> 1, resetTime |-> now + 60 * 1000]
                 /\ reqs'[r].pc = "validate"

\* the reset time of a client is the start of its window plus 60 seconds
C26_ResetTime ==
  \A ip \in DOMAIN ipRequestMap :
    ipRequestMap[ip].resetTime = window[ip].start + 60 * 1000

\* C26: the window is fixed, not sliding: while a client's window is open
\* (now <= resetTime) no request of that client, admitted or refused, changes
\* its resetTime, and requests of other clients never change its count or
\* resetTime; a client that keeps sending while blocked is admitted again on
\* its first request after the original resetTime, and a request arriving
\* exactly at resetTime is still counted in the old window.
C26_FixedWindow == []C26_ResetTime /\ [][C26_WindowStep]_vars

\* a client that was blocked has been admitted again as request 1 of a window
\* that began after its old reset time, while the entry of the other client,
\* whose window is over, stands as that client's last request left it
C26_Witness ==
  \E ip1, ip2 \in DOMAIN ipRequestMap :
    /\ ip1 # ip2
    /\ window[ip1].blocked
    /\ ipRequestMap[ip1].count = 1
    /\ window[ip1].start > 60 * 1000
    /\ ipRequestMap[ip2].resetTime < now
    /\ ipRequestMap[ip2].count > 1

\* the x-forwarded-for value of a request, "unknown" when it has none
ForwardedFor(req) == IF req.xff.has /\ req.xff.v # "" THEN req.xff.v ELSE "unknown"

\* the rate-limit step of a request other than OPTIONS adds one to the entry
\* of its x-forwarded-for value, whatever the validator is going to say, and
\* answers 429 beyond the limit; OPTIONS and the steps after the limiter
\* leave the table as it is
C27_CountedFirst ==
  \A r \in Reqs :
    IF reqs[r].pc = "idle" /\ reqs'[r].pc # "idle"
      THEN LET req == reqs'[r].req
               ip == ForwardedFor(req)
           IN IF req.method = "OPTIONS"
                THEN ipRequestMap' = ipRequestMap /\ reqs'[r].steps = <<>>
              ELSE /\ ip \in DOMAIN ipRequestMap'
                   /\ ip \in DOMAIN ipRequestMap =>
                        /\ ipRequestMap'[ip].count = ipRequestMap[ip].count + 1
                        /\ \A k \in DOMAIN ipRequestMap : k # ip =>
                             ipRequestMap'[k] = ipRequestMap[k]
                   /\ (reqs'[r].resp.status = 429) <=> (ipRequestMap'[ip].count > 10)
                   /\ reqs'[r].resp.status # 429 => reqs'[r].pc = "validate"
    ELSE (reqs'[r] # reqs[r]) => ipRequestMap' = ipRequestMap

\* a request is refused by the validator only after it has been counted
C27_CountedBeforeValidation ==
  \A r \in Reqs :
    reqs[r].resp.status \in {400, 401, 405} =>
      /\ reqs[r].steps[1] = "rateLimit"
      /\ reqs[r].nth >= 1
      /\ ipRequestMap[ForwardedFor(reqs[r].req)].count >= reqs[r].nth

\* C27: rate-limit counting happens before authentication and is keyed only
\* by the x-forwarded-for value ("unknown" when absent): requests later
\* refused with 400, 401 or 405 still add to the count, so that after 10 of
\* them in one window a valid request of the same client identifier gets 429;
\* OPTIONS requests never touch the rate-limit table.
C27_CountingBeforeAuth == []C27_CountedBeforeValidation /\ [][C27_CountedFirst]_vars

\* a request that the validator would accept is the 11th of a window whose
\* first 10 requests were all counted, and has been answered 429
C27_Witness ==
  \E r \in Reqs :
    /\ validateRequest(reqs[r].req, env.apiKey).success
    /\ reqs[r].nth = 11
    /\ reqs[r].resp.status = 429
    /\ reqs[r].steps = <<"rateLimit">>
    /\ ipRequestMap["unknown"].count = 11

\* the rows of data of a tab, the header row left out; none when the tab
\* does not exist
DataRows(sh, id, tab) ==
  IF tab \in DOMAIN sh[id] THEN SelectSeq(sh[id][tab], LAMBDA x : x = "row")
  ELSE <<>>

\* a request answered 200 has addRows as its last step and has appended the
\* one row of its payload; a request with an error status has appended none
C28_SuccessMeansAppended ==
  \A r \in Reqs :
    /\ reqs[r].resp = SuccessResp =>
         /\ Pipeline(r)[Len(Pipeline(r))] = "addRows"
         /\ reqs[r].appended # <<>>
         /\ Len(reqs[r].appended.rows) = 1
         /\ reqs[r].appended.tab \in DOMAIN sheets[reqs[r].appended.sheet]
    /\ Failed(r) => reqs[r].appended = <<>>
    /\ reqs[r].appended # <<>> => reqs[r].resp = SuccessResp

\* the rows of data change only in the step that gives a request its 200, and
\* then by exactly one row at the end of that request's tab
C28_OneRowPerSuccess ==
  \A id \in SheetIds : \A tab \in DOMAIN sheets'[id] :
    LET succeeding == {r \in Reqs : /\ reqs[r].resp # SuccessResp
                                    /\ reqs'[r].resp = SuccessResp
                                    /\ SheetOf(r) = id /\ TabOf(r) = tab}
    IN /\ \A r \in succeeding : reqs[r].pc = "append"
       /\ DataRows(sheets', id, tab) =
            IF succeeding = {} THEN DataRows(sheets, id, tab)
            ELSE Append(DataRows(sheets, id, tab), "row")

\* C28: a 200 is returned only if the addRows of that same request completed
\* without error; for a tagged payload exactly one row is appended per
\* successful request, and a request that ends with an error status has
\* appended no row.
C28_SuccessIffAppended == []C28_SuccessMeansAppended /\ [][C28_OneRowPerSuccess]_vars

\* the append of a request failed after its tab and header row were written:
\* the request has its 500 and the tab holds no row of data
C28_Witness ==
  \E r \in Reqs :
    /\ reqs[r].pc = "done"
    /\ reqs[r].resp = ErrorResp(500, "Error updating Google Sheet")
    /\ HasStep(r, "saveUpdatedCells")
    /\ sheets[SheetOf(r)][TabOf(r)] = <<"header">>

\* C29: when two valid requests of the same data type are handled at once
\* against a spreadsheet that lacks their tab, the tab is created exactly once
\* and both rows are appended: neither request issues an addSheet for a title
\* that the other has already created, and neither fails because of the other.
C29_TabCreatedOnce ==
  \A r \in Reqs :
    reqs[r].pc = "addSheet" => TabOf(r) \notin DOMAIN sheets[SheetOf(r)]

\* the shared secret is unset or empty
NoSecret == ~env.apiKey.has \/ env.apiKey.v = <<>>

====
